---------------------------- MODULE Spec2Model ----------------------------
(***************************************************************************)
(* A model of the out-of-band coordination engine of sleuth-io/minions:    *)
(* the hook ingester and the Status Store (main.go, manager.go), the       *)
(* per-path message queue (manager.go), the minion supervisor (main.go,    *)
(* handleMinionMode), the status file on disk with its repairs and change  *)
(* notification, the transcript watcher's goroutines (manager.go) and the  *)
(* transcript parser (internal/claude).                                    *)
(*                                                                         *)
(* Strings the code takes apart character by character (paths, message     *)
(* texts) are sequences of one-character strings or of code points.        *)
(* Time is counted in seconds.                                             *)
(***************************************************************************)
EXTENDS Naturals, Integers, Sequences, FiniteSets, TLC

VARIABLES
    \* ---- Status Store, hook ingester, transcript watcher
    store,          \* agent-status.json: the sequence of AgentStatus rows
    now,            \* the wall clock, in seconds
    transcripts,    \* transcript file -> whether it exists, and its lines
    statusEvent,    \* an unhandled fsnotify write event on agent-status.json
    transcriptEvent,\* the transcript files with an unhandled write event
    repos,          \* repositories.json: the paths of the configured repositories
    knownRepos,     \* TranscriptWatcher.knownRepos
    transcriptWatchers, \* TranscriptWatcher.transcriptWatchers (its session ids)
    projectToSession,   \* TranscriptWatcher.projectToSession
    lastOp,         \* the operation that made the last step, with its inputs
    \* ---- message queue
    files,          \* minion-messages/: storage key -> the message file under it
    enq,            \* per dashboard request, its AddMinionMessage call in progress
    pop,            \* per supervisor (path), its PopMinionMessage call in progress
    nextId,         \* number of messages accepted by enqueue so far
    accepted,       \* per path, the messages enqueue has accepted, in order
    returned,       \* per path, the messages pop has returned, in order
    qlast,          \* the last completed queue call and what it returned
    \* ---- minion supervisor
    sup,            \* the supervisor process: child, flag, channels, pipe
    \* ---- agent-status.json on disk, in the dashboard process
    statusFile,     \* the file: whether it exists, its content, its ModTime
    loaded,         \* the last GetAgentStatus call and what it returned
    notified,       \* the invocations of the change subscribers, in order
    fileWatcher,    \* FileWatcher.start: its lastModTime
    writers,        \* the read-modify-write updates of the file in progress
    \* ---- the transcript watcher's goroutines
    handlers,       \* the calls of handleAgentStatusChange in progress
    openWatchers,   \* session id -> its fsnotify watchers that are open
    \* ---- the dashboard's event stream
    hub             \* the SSE hub, its channels and the goroutines using it

vars == <<store, now, transcripts, statusEvent, transcriptEvent, repos, knownRepos,
          transcriptWatchers, projectToSession, lastOp,
          files, enq, pop, nextId, accepted, returned, qlast, sup,
          statusFile, loaded, notified, fileWatcher, writers,
          handlers, openWatchers, hub>>

hookVars  == <<store, now, transcripts, statusEvent, transcriptEvent, repos, knownRepos,
               transcriptWatchers, projectToSession, lastOp>>
queueVars == <<files, enq, pop, nextId, accepted, returned, qlast>>
diskVars  == <<statusFile, loaded, notified, fileWatcher, writers,
               handlers, openWatchers, hub>>

(***************************************************************************)
(* Strings as sequences                                                    *)
(***************************************************************************)

\* strings.ReplaceAll for a one-character pattern and replacement
ReplaceAll(s, old, new) == [i \in 1..Len(s) |-> IF s[i] = old THEN new ELSE s[i]]

Range(s) == {s[i] : i \in 1..Len(s)}

\* the least element of a non-empty set of numbers, 0 for the empty set
MinOf(S) == IF S = {} THEN 0 ELSE CHOOSE i \in S : \A j \in S : i <= j
MaxOf(S) == IF S = {} THEN 0 ELSE CHOOSE i \in S : \A j \in S : i >= j

(***************************************************************************)
(* Status Store rows and hook payloads                                     *)
(***************************************************************************)

\* two monitored directories whose Claude project directory names coincide
PathDash  == <<"/", "a", "-", "b">>
PathSlash == <<"/", "a", "/", "b">>
Paths == {PathDash, PathSlash}

Statuses == {"unknown", "running", "waiting", "idle", "paused", "error"}

\* the transcript directory of a project path under ~/.claude/projects
ProjectDirName(path) == ReplaceAll(path, "/", "-")

Sessions == {"s1"}

\* a transcript file <dir>/<session>.jsonl
TranscriptFile(dir, session) == [dir |-> dir, session |-> session]

TranscriptFiles == {TranscriptFile(ProjectDirName(p), s) : p \in Paths, s \in Sessions}

\* the empty string of a session_id, and the empty transcript_path
NoSession == ""
NoTranscript == TranscriptFile(<<>>, "")

AgentStatus(path, status, la, sid, tp) ==
    [path |-> path, status |-> status, last_activity |-> la,
     session_id |-> sid, transcript_path |-> tp]

(***************************************************************************)
(* Transcript files                                                        *)
(*                                                                         *)
(* A line is blank, not a JSON object ("malformed"), longer than           *)
(* bufio.MaxScanTokenSize (64 KiB, "toolong"), or a JSON object with       *)
(* "type", "message.role", the message's extracted text and a top-level    *)
(* "content" string.  A text is "" (none), "conv" (conversation) or "sys"  *)
(* (it contains a pattern of IsSystemOutput).  ts is the time the line was  *)
(* written, which is an entry's "timestamp".                               *)
(***************************************************************************)

Line(json, type, role, content, direct, ts) ==
    [json |-> json, type |-> type, role |-> role, content |-> content,
     direct |-> direct, ts |-> ts]

BlankLine(ts)     == Line("blank", "", "", "", "", ts)
MalformedLine(ts) == Line("malformed", "", "", "", "", ts)
TooLongLine(ts)   == Line("toolong", "user", "user", "conv", "", ts)
UserLine(ts)      == Line("object", "user", "user", "conv", "", ts)
AssistantLine(ts) == Line("object", "assistant", "assistant", "conv", "", ts)
\* an entry of type assistant that carries no message object
AssistantTypeLine(ts) == Line("object", "assistant", "", "", "", ts)
\* an assistant message whose only blocks are tool_use blocks, logged
\* under another entry type
ToolUseLine(ts)   == Line("object", "progress", "assistant", "", "", ts)
\* a system entry echoing hook output
SystemLine(ts)    == Line("object", "system", "", "", "sys", ts)

NoFile == [exists |-> FALSE, lines |-> <<>>]
FileOf(lines) == [exists |-> TRUE, lines |-> lines]

\* the lines bufio.Scanner yields: scanning stops for good at the first
\* line longer than its buffer
Scanned(lines) ==
    LET long == {i \in 1..Len(lines) : lines[i].json = "toolong"}
    IN  IF long = {} THEN lines
        ELSE SubSeq(lines, 1, (CHOOSE i \in long : \A j \in long : i <= j) - 1)

\* the lines of s whose json kind is in want, in order
RECURSIVE SelectLines(_, _)
SelectLines(s, want) ==
    IF s = <<>> THEN <<>>
    ELSE IF Head(s).json \in want THEN <<Head(s)>> \o SelectLines(Tail(s), want)
    ELSE SelectLines(Tail(s), want)

\* the entries a scan decodes: json.Unmarshal succeeded
Entries(lines) == SelectLines(Scanned(lines), {"object"})

isWaitingForUser(trs, tp) ==
    IF tp \notin DOMAIN trs \/ ~trs[tp].exists THEN FALSE
    ELSE LET es == Entries(trs[tp].lines)
         IN  IF es = <<>> THEN FALSE
             ELSE LET lastEntry == es[Len(es)]
                  IN  lastEntry.type = "assistant" \/ lastEntry.role = "assistant"

(***************************************************************************)
(* Hook ingester (main.go, handleHookMode)                                 *)
(***************************************************************************)

Nil == "nil"

\* json.Decoder into a field of type any: an absent key and a JSON null
\* both leave it nil
Decode(v) == IF v = "value" THEN "value" ELSE Nil

HookData(payload) ==
    [SessionID |-> payload.session_id,
     TranscriptPath |-> payload.transcript_path,
     ToolName |-> payload.tool_name,
     ToolInput |-> Decode(payload.tool_input),
     ToolOutput |-> Decode(payload.tool_output)]

\* the event type, from the presence of fields and the transcript
EventOf(hookData, trs) ==
    IF hookData.ToolInput # Nil THEN "PreToolUse"
    ELSE IF hookData.ToolOutput # Nil THEN "PostToolUse"
    ELSE IF hookData.ToolName # "" THEN "PostToolUse"
    ELSE IF hookData.SessionID # NoSession /\ hookData.TranscriptPath # NoTranscript
         THEN IF isWaitingForUser(trs, hookData.TranscriptPath)
              THEN "Notification" ELSE "Stop"
    ELSE "Stop"

determineStatusFromEventNotifyRunning(event) ==
    CASE event = "PreToolUse"   -> "running"
      [] event = "PostToolUse"  -> "running"
      [] event = "Notification" -> "running"
      [] event = "Stop"         -> "idle"
      [] OTHER                  -> "unknown"

determineStatusFromEvent(event) ==
    CASE event = "PreToolUse"   -> "running"
      [] event = "PostToolUse"  -> "running"
      [] event = "Notification" -> "waiting"
      [] event = "Stop"         -> "idle"
      [] OTHER                  -> "unknown"

\* the index of the first row of statuses with this path, 0 if none
FirstIndex(statuses, path) ==
    MinOf({i \in 1..Len(statuses) : statuses[i].path = path})

\* the index of the first running or waiting row with this path, 0 if none
FirstActiveIndex(statuses, path) ==
    MinOf({i \in 1..Len(statuses) : /\ statuses[i].path = path
                                    /\ statuses[i].status \in {"running", "waiting"}})

\* 10*time.Second
DebounceWindow == 10

shouldIgnoreStopWaitingOnly(statuses, workingDir, t) ==
    LET i == FirstIndex(statuses, workingDir)
    IN  /\ i # 0
        /\ statuses[i].status = "waiting"
        /\ t - statuses[i].last_activity < DebounceWindow

shouldIgnoreStop(statuses, workingDir, t) ==
    LET i == FirstIndex(statuses, workingDir)
    IN  /\ i # 0
        /\ statuses[i].status \in {"running", "waiting"}
        /\ t - statuses[i].last_activity < DebounceWindow

\* the status a hook writes: the event's status, or for an ignored Stop the
\* status of the first running or waiting row of the path
HookStatus(statuses, workingDir, event, t) ==
    LET status == determineStatusFromEvent(event)
        i == FirstActiveIndex(statuses, workingDir)
    IN  IF event = "Stop" /\ shouldIgnoreStop(statuses, workingDir, t) /\ i # 0
        THEN statuses[i].status
        ELSE status

UpsertAppendAlways(statuses, agentStatus) == Append(statuses, agentStatus)

UpsertOverwrites(statuses, agentStatus) ==
    LET i == FirstIndex(statuses, agentStatus.path)
    IN  IF i = 0 THEN Append(statuses, agentStatus)
        ELSE [statuses EXCEPT ![i] = agentStatus]

\* update or add the row of agentStatus.path, keeping the stored session
\* info where the hook gave none
Upsert(statuses, agentStatus) ==
    LET i == FirstIndex(statuses, agentStatus.path)
    IN  IF i = 0 THEN Append(statuses, agentStatus)
        ELSE [statuses EXCEPT ![i] =
                [agentStatus EXCEPT
                    !.session_id = IF agentStatus.session_id = NoSession
                                   THEN statuses[i].session_id ELSE @,
                    !.transcript_path = IF agentStatus.transcript_path = NoTranscript
                                        THEN statuses[i].transcript_path ELSE @]]

\* the payloads a hook framework sends, as JSON objects
Payloads ==
    [session_id : {NoSession} \cup Sessions,
     transcript_path : {NoTranscript} \cup TranscriptFiles,
     tool_name : {"", "Bash"},
     tool_input : {"absent", "null", "value"},
     tool_output : {"absent", "null", "value"}]

Op(op, path, event) == [op |-> op, path |-> path, event |-> event]

\* a hook whose discarded Stop leaves the row's time as it was
HookKeepsTimeOfDiscardedStop(workingDir, payload) ==
    LET hookData == HookData(payload)
        event == EventOf(hookData, transcripts)
        status == HookStatus(store, workingDir, event, now)
        i == FirstIndex(store, workingDir)
        agentStatus == AgentStatus(workingDir, status,
                                   IF event = "Stop" /\ status # "idle" /\ i # 0
                                   THEN store[i].last_activity ELSE now,
                                   hookData.SessionID, hookData.TranscriptPath)
    IN  /\ store' = Upsert(store, agentStatus)
        /\ statusEvent' = TRUE
        /\ lastOp' = Op("hook", workingDir, event)
        /\ UNCHANGED <<now, transcripts, transcriptEvent, repos, knownRepos,
                       transcriptWatchers, projectToSession>>
        /\ UNCHANGED <<queueVars, sup, diskVars>>

\* one hook invocation in directory workingDir.  The second save (of the
\* same rows, with the extracted last message) rewrites the file with the
\* same statuses.
Hook(workingDir, payload) ==
    LET hookData == HookData(payload)
        event == EventOf(hookData, transcripts)
        status == HookStatus(store, workingDir, event, now)
        agentStatus == AgentStatus(workingDir, status, now,
                                   hookData.SessionID, hookData.TranscriptPath)
    IN  /\ store' = Upsert(store, agentStatus)
        /\ statusEvent' = TRUE
        /\ lastOp' = Op("hook", workingDir, event)
        /\ UNCHANGED <<now, transcripts, transcriptEvent, repos, knownRepos,
                       transcriptWatchers, projectToSession>>
        /\ UNCHANGED <<queueVars, sup, diskVars>>

(***************************************************************************)
(* Transcript parser (internal/claude)                                     *)
(***************************************************************************)

\* readLinesFromEnd: the complete lines inside the last maxLines*500 bytes.
\* Ordinary lines are short, so the window reaches back to the last line
\* longer than 64 KiB, which is cut and skipped, and the scan of the window
\* never fails.
TailLines(lines) ==
    LET long == {i \in 1..Len(lines) : lines[i].json = "toolong"}
    IN  SubSeq(lines, MaxOf(long) + 1, Len(lines))

\* strings.ToLower on a text: "SYS" is a text that holds a pattern of
\* IsSystemOutput in capitals
ToLower(text) == IF text = "SYS" THEN "sys" ELSE text

\* IsSystemOutput on a text: the lowered text contains a lowered pattern
IsSystemOutput(text) == ToLower(text) = "sys"

\* parseLineForMessage: the line is a user or assistant message whose
\* cleaned text is not empty and not system output
IsMessageLine(l) ==
    /\ l.json = "object" /\ l.role \in {"user", "assistant"}
    /\ l.content # "" /\ ~IsSystemOutput(l.content)

\* GetLastMessage: [err, msg], the newest qualifying message of the tail
GetLastMessage(trs, tp) ==
    IF tp \notin DOMAIN trs \/ ~trs[tp].exists THEN [err |-> TRUE, msg |-> ""]
    ELSE LET ls == TailLines(trs[tp].lines)
             hits == {i \in 1..Len(ls) : IsMessageLine(ls[i])}
         IN  [err |-> FALSE,
              msg |-> IF hits = {} THEN "" ELSE ls[MaxOf(hits)].content]

\* the text extractMessageContent finds in a decoded entry
HasMessage(l) == l.role \in {"user", "assistant"} /\ l.content # ""

\* GetLastMessageTimestampAndRole: a full forward scan, which fails on a
\* line longer than the scanner's buffer
GetLastMessageTimestampAndRole(trs, tp) ==
    IF tp \notin DOMAIN trs \/ ~trs[tp].exists
       \/ \E i \in 1..Len(trs[tp].lines) : trs[tp].lines[i].json = "toolong"
    THEN [err |-> TRUE, ts |-> 0, role |-> ""]
    ELSE LET es == Entries(trs[tp].lines)
             hits == {i \in 1..Len(es) : HasMessage(es[i])}
         IN  IF hits = {} THEN [err |-> FALSE, ts |-> 0, role |-> ""]
             ELSE [err |-> FALSE, ts |-> es[MaxOf(hits)].ts,
                   role |-> es[MaxOf(hits)].role]

\* the text GetMostRecentActivity reads in a decoded entry
ActivityText(l) == IF l.direct # "" THEN l.direct
                   ELSE IF l.role \in {"user", "assistant"} THEN l.content ELSE ""

\* DetermineSessionStatus: waiting when the newest entry with text is
\* system output or there is none, running otherwise
DetermineSessionStatus(trs, tp) ==
    IF tp \notin DOMAIN trs \/ ~trs[tp].exists THEN "waiting"
    ELSE LET ls == TailLines(trs[tp].lines)
             hits == {i \in 1..Len(ls) : ls[i].json = "object" /\ ActivityText(ls[i]) # ""}
         IN  IF hits = {} THEN "waiting"
             ELSE IF IsSystemOutput(ActivityText(ls[MaxOf(hits)])) THEN "waiting"
             ELSE "running"

\* FindMostRecentTranscript: the most recently modified *.jsonl file of the
\* project's directory, NoTranscript when there is none
ModTime(file) == IF file.lines = <<>> THEN 0 ELSE file.lines[Len(file.lines)].ts

FindMostRecentTranscript(trs, projectPath) ==
    LET found == {tp \in DOMAIN trs : tp.dir = ProjectDirName(projectPath) /\ trs[tp].exists}
    IN  IF found = {} THEN NoTranscript
        ELSE CHOOSE tp \in found : \A other \in found : ModTime(trs[tp]) >= ModTime(trs[other])

(***************************************************************************)
(* Transcript watcher (manager.go)                                         *)
(***************************************************************************)

\* strings.HasPrefix(path, repoPath + "/")
IsUnder(path, repoPath) ==
    /\ Len(path) > Len(repoPath)
    /\ SubSeq(path, 1, Len(repoPath)) = repoPath
    /\ path[Len(repoPath) + 1] = "/"

isKnownRepository(known, path) ==
    path \in known \/ \E repoPath \in known : IsUnder(path, repoPath)

\* extractProjectPathFromTranscript: the path of the first row whose
\* directory name is the transcript's directory, <<>> when there is none
extractProjectPathFromTranscript(statuses, tp) ==
    IF tp.dir = <<>> \/ tp.dir[1] # "-" THEN <<>>
    ELSE LET hits == {i \in 1..Len(statuses) : ProjectDirName(statuses[i].path) = tp.dir}
         IN  IF hits = {} THEN <<>> ELSE statuses[MinOf(hits)].path

shouldChangeToRunningUnlessRunning(status, lastMessage, info, t) ==
    lastMessage # "" /\ ~IsSystemOutput(lastMessage) /\ status # "running"

\* whether handleTranscriptChange moves the row to running.  The row's
\* LastActivity has been set to the current time t before the comparison
\* (targetStatus points into statuses).
shouldChangeToRunning(status, lastMessage, info, t) ==
    IF lastMessage # "" /\ ~IsSystemOutput(lastMessage)
    THEN IF status = "waiting"
         THEN IF info.err THEN TRUE
              ELSE IF info.role = "user" THEN TRUE
              ELSE ~(info.ts < t)
         ELSE status \in {"idle", "unknown"}
    ELSE FALSE

\* the table handleTranscriptChange saves for a write to transcript tp
TranscriptChange(statuses, trs, tp, t) ==
    LET projectPath == extractProjectPathFromTranscript(statuses, tp)
        i == FirstIndex(statuses, projectPath)
        last == GetLastMessage(trs, tp)
        info == GetLastMessageTimestampAndRole(trs, tp)
    IN  IF projectPath = <<>> \/ i = 0 \/ last.err THEN statuses
        ELSE [statuses EXCEPT ![i] =
                [@ EXCEPT !.last_activity = t,
                          !.status = IF shouldChangeToRunning(@, last.msg, info, t)
                                     THEN "running" ELSE @]]

\* whether handleTranscriptChange reaches its save
TranscriptChangeSaves(statuses, trs, tp) ==
    LET projectPath == extractProjectPathFromTranscript(statuses, tp)
    IN  /\ projectPath # <<>>
        /\ FirstIndex(statuses, projectPath) # 0
        /\ ~GetLastMessage(trs, tp).err

\* a pass that turns every running row it looks at into a waiting one and
\* every other into a running one
CorrectedAlternates(statuses, known, trs) ==
    [i \in 1..Len(statuses) |->
        LET status == statuses[i]
            tp == FindMostRecentTranscript(trs, status.path)
        IN  IF isKnownRepository(known, status.path) /\ tp # NoTranscript
            THEN [status EXCEPT !.status = IF @ = "running" THEN "waiting" ELSE "running"]
            ELSE status]

CorrectedUnlessParked(statuses, known, trs) ==
    [i \in 1..Len(statuses) |->
        LET status == statuses[i]
            tp == FindMostRecentTranscript(trs, status.path)
        IN  IF /\ isKnownRepository(known, status.path) /\ tp # NoTranscript
               /\ status.status \notin {"paused", "error"}
            THEN [status EXCEPT !.status = DetermineSessionStatus(trs, tp)]
            ELSE status]

\* the table correctStatusFromTranscripts computes
Corrected(statuses, known, trs) ==
    [i \in 1..Len(statuses) |->
        LET status == statuses[i]
            tp == FindMostRecentTranscript(trs, status.path)
        IN  IF isKnownRepository(known, status.path) /\ tp # NoTranscript
            THEN [status EXCEPT !.status = DetermineSessionStatus(trs, tp)]
            ELSE status]

\* maps as functions on the set of their keys
EmptyMap == [k \in {} |-> ""]
MapPut(f, k, v) == [x \in DOMAIN f \cup {k} |-> IF x = k THEN v ELSE f[x]]
MapDel(f, k) == [x \in DOMAIN f \ {k} |-> f[x]]

\* a loop body that looks at the rows of every path
WatchRowOfAnyPath(reg, status, known, trs) ==
    LET discover == status.session_id = NoSession \/ status.transcript_path = NoTranscript
        found == FindMostRecentTranscript(trs, status.path)
        sessionID == IF discover THEN found.session ELSE status.session_id
        transcriptPath == IF discover THEN found ELSE status.transcript_path
        stale == status.path \in DOMAIN reg.p2s /\ reg.p2s[status.path] # sessionID
        w1 == IF stale THEN MapDel(reg.w, reg.p2s[status.path]) ELSE reg.w
        exists == transcriptPath \in DOMAIN trs /\ trs[transcriptPath].exists
        w2 == IF sessionID \notin DOMAIN w1 /\ exists
              THEN MapPut(w1, sessionID, transcriptPath) ELSE w1
    IN  IF discover /\ found = NoTranscript THEN reg
        ELSE [w |-> w2,
              p2s |-> MapPut(reg.p2s, status.path, sessionID),
              active |-> reg.active \cup {sessionID}]

WatchRowKeepsMapping(reg, status, known, trs) ==
    LET sessionID == status.session_id
        exists == status.transcript_path \in DOMAIN trs /\ trs[status.transcript_path].exists
    IN  IF ~isKnownRepository(known, status.path) \/ sessionID = NoSession THEN reg
        ELSE [w |-> IF sessionID \notin DOMAIN reg.w /\ exists
                    THEN MapPut(reg.w, sessionID, status.transcript_path) ELSE reg.w,
              p2s |-> IF status.path \in DOMAIN reg.p2s THEN reg.p2s
                      ELSE MapPut(reg.p2s, status.path, sessionID),
              active |-> reg.active \cup {sessionID}]

\* the loop body of handleAgentStatusChange for one row; reg holds the
\* watchers (session id -> watched file), the project -> session mapping
\* and the active session ids
WatchRow(reg, status, known, trs) ==
    LET discover == status.session_id = NoSession \/ status.transcript_path = NoTranscript
        found == FindMostRecentTranscript(trs, status.path)
        sessionID == IF discover THEN found.session ELSE status.session_id
        transcriptPath == IF discover THEN found ELSE status.transcript_path
        stale == status.path \in DOMAIN reg.p2s /\ reg.p2s[status.path] # sessionID
        w1 == IF stale THEN MapDel(reg.w, reg.p2s[status.path]) ELSE reg.w
        exists == transcriptPath \in DOMAIN trs /\ trs[transcriptPath].exists
        w2 == IF sessionID \notin DOMAIN w1 /\ exists
              THEN MapPut(w1, sessionID, transcriptPath) ELSE w1
    IN  IF ~isKnownRepository(known, status.path) THEN reg
        ELSE IF discover /\ found = NoTranscript THEN reg
        ELSE [w |-> w2,
              p2s |-> MapPut(reg.p2s, status.path, sessionID),
              active |-> reg.active \cup {sessionID}]

RECURSIVE WatchRows(_, _, _, _)
WatchRows(reg, statuses, known, trs) ==
    IF statuses = <<>> THEN reg
    ELSE WatchRows(WatchRow(reg, Head(statuses), known, trs), Tail(statuses), known, trs)

\* the files with an open watcher
Watched(w) == {w[sid] : sid \in DOMAIN w}

\* handleAgentStatusChange, run for a write event on the status file (and
\* once by Start): refresh the known repositories, bring the watchers in
\* line with the rows, drop the watchers of inactive sessions, each with one
\* project mapped to it (Go picks the map entry), then the correction pass
\* and its save, which raises the next write event.
StatusChangeHandled ==
    /\ statusEvent
    /\ LET known == repos
           reg == WatchRows([w |-> transcriptWatchers, p2s |-> projectToSession,
                             active |-> {}], store, known, transcripts)
           inactive == DOMAIN reg.w \ reg.active
           corrected == Corrected(store, known, transcripts)
       IN  /\ knownRepos' = known
           /\ transcriptWatchers' = [sid \in DOMAIN reg.w \ inactive |-> reg.w[sid]]
           /\ \E drop \in SUBSET DOMAIN reg.p2s :
                /\ \A p \in drop : reg.p2s[p] \in inactive
                /\ \A sid \in inactive :
                      (\E p \in DOMAIN reg.p2s : reg.p2s[p] = sid)
                         => Cardinality({p \in drop : reg.p2s[p] = sid}) = 1
                /\ projectToSession' = [p \in DOMAIN reg.p2s \ drop |-> reg.p2s[p]]
           /\ transcriptEvent' = transcriptEvent \cap Watched(transcriptWatchers')
           /\ store' = corrected
           /\ statusEvent' = (corrected # store)
    /\ UNCHANGED <<now, transcripts, repos>>
    /\ UNCHANGED <<queueVars, sup, diskVars>>

HandleAgentStatusChange ==
    /\ StatusChangeHandled
    /\ lastOp' = Op("status_change", <<>>, "")

\* handleTranscriptChange, run by watchTranscript for a write event on tp
HandleTranscriptChange(tp) ==
    /\ tp \in transcriptEvent
    /\ transcriptEvent' = transcriptEvent \ {tp}
    /\ store' = TranscriptChange(store, transcripts, tp, now)
    /\ statusEvent' = (statusEvent \/ TranscriptChangeSaves(store, transcripts, tp))
    /\ lastOp' = Op("transcript_change", extractProjectPathFromTranscript(store, tp), "")
    /\ UNCHANGED <<now, transcripts, repos, knownRepos, transcriptWatchers,
                   projectToSession>>
    /\ UNCHANGED <<queueVars, sup, diskVars>>

(***************************************************************************)
(* The environment of the store: the clock and the agent's transcript      *)
(***************************************************************************)

\* the clock's step, in seconds
TickSeconds == 5

\* time passes, up to maxNow
Advance(maxNow) ==
    /\ now + TickSeconds <= maxNow
    /\ now' = now + TickSeconds
    /\ UNCHANGED <<store, transcripts, statusEvent, transcriptEvent, repos, knownRepos,
                   transcriptWatchers, projectToSession, lastOp>>
    /\ UNCHANGED <<queueVars, sup, diskVars>>

\* the agent appends a line to transcript tp (of at most maxLines lines),
\* creating the file; a watcher of the file receives a write event
AppendLine(tp, line, maxLines) ==
    /\ Len(transcripts[tp].lines) < maxLines
    /\ transcripts' = [transcripts EXCEPT ![tp] = FileOf(Append(@.lines, line))]
    /\ transcriptEvent' = IF tp \in Watched(transcriptWatchers)
                          THEN transcriptEvent \cup {tp} ELSE transcriptEvent
    /\ UNCHANGED <<store, now, statusEvent, repos, knownRepos, transcriptWatchers,
                   projectToSession, lastOp>>
    /\ UNCHANGED <<queueVars, sup, diskVars>>

(***************************************************************************)
(* Specifications of the Status Store and its writers                      *)
(***************************************************************************)

\* bounds of the model
MaxTicks == 2
MaxHookLines == 1
MaxStoreLines == 2
MaxStoreTicks == 1
MaxLines == 3

TheTranscript == TranscriptFile(ProjectDirName(PathSlash), "s1")

\* the repositories the dashboard monitors
Repos == {PathSlash}

QueueIdle ==
    /\ files = <<>> /\ enq = <<>> /\ pop = <<>> /\ nextId = 0
    /\ accepted = <<>> /\ returned = <<>> /\ qlast = <<>>

SupIdle == sup = <<>>

DiskIdle ==
    /\ statusFile = <<>> /\ loaded = <<>> /\ notified = <<>>
    /\ hub = <<>> /\ fileWatcher = <<>> /\ writers = <<>>
    /\ handlers = <<>> /\ openWatchers = <<>>

StoreInit ==
    /\ store = <<>>
    /\ now = 0
    /\ transcripts = [tp \in TranscriptFiles |-> NoFile]
    /\ statusEvent = TRUE
    /\ transcriptEvent = {}
    /\ repos = Repos
    /\ knownRepos = Repos
    /\ transcriptWatchers = EmptyMap
    /\ projectToSession = EmptyMap
    /\ lastOp = Op("start", <<>>, "")
    /\ QueueIdle
    /\ SupIdle
    /\ DiskIdle

\* one payload shape per event, with and without the session's fields
EventPayloads ==
    {pl \in Payloads :
        /\ (pl.session_id = NoSession) <=> (pl.transcript_path = NoTranscript)
        /\ pl.tool_output = "absent"
        /\ pl.tool_input \in {"absent", "value"}
        /\ pl.tool_input = "value" => pl.tool_name = "Bash"}

\* the lines the agent writes in a conversation
ConversationLines(t) == {UserLine(t), AssistantLine(t), SystemLine(t)}

\* all kinds of lines
AllLines(t) == ConversationLines(t) \cup
    {AssistantTypeLine(t), ToolUseLine(t), BlankLine(t), MalformedLine(t), TooLongLine(t)}

\* hooks of every event for both directories, as time passes
HookNext ==
    \/ \E workingDir \in Paths, payload \in EventPayloads : Hook(workingDir, payload)
    \/ Advance(MaxTicks * TickSeconds)
    \/ \E line \in ConversationLines(now) : AppendLine(TheTranscript, line, MaxHookLines)

HookSpec == StoreInit /\ [][HookNext]_vars

\* hooks with every payload in one directory, over transcripts of every
\* kind of line
ClassifyNext ==
    \/ \E payload \in Payloads : Hook(PathSlash, payload)
    \/ \E line \in AllLines(now) : AppendLine(TheTranscript, line, MaxLines)

ClassifySpec == StoreInit /\ [][ClassifyNext]_vars

\* hooks, the watcher's handlers and the agent's transcript
StoreNext ==
    \/ \E workingDir \in Paths, payload \in EventPayloads : Hook(workingDir, payload)
    \/ HandleAgentStatusChange
    \/ \E tp \in TranscriptFiles : HandleTranscriptChange(tp)
    \/ Advance(MaxStoreTicks * TickSeconds)
    \/ \E line \in ConversationLines(now) : AppendLine(TheTranscript, line, MaxStoreLines)

StoreSpec == StoreInit /\ [][StoreNext]_vars

(***************************************************************************)
(* Properties of the hook ingester and the Status Store                    *)
(***************************************************************************)

\* the rows of a table with this path
RowsOf(statuses, path) == {statuses[i] : i \in {j \in 1..Len(statuses) : statuses[j].path = path}}

\* a step is a hook invocation in directory path: it ends with lastOp a hook
\* in path, and unlike the steps of the clock and of the agent it leaves the
\* time and the transcripts as they were
IsHook(path) ==
    /\ lastOp'.op = "hook" /\ lastOp'.path = path
    /\ now' = now /\ transcripts' = transcripts

\* the stored row of path is running or waiting and less than 10 seconds old
RecentlyActive(path) ==
    \E row \in RowsOf(store, path) :
        row.status \in {"running", "waiting"} /\ now - row.last_activity < 10

\* C1: a Stop hook on a path whose stored row is running or waiting and was
\* updated less than 10 seconds before leaves the row with that same status,
\* never idle.
C1_StopWithinWindowKeepsStatus ==
    [][\A path \in Paths :
          (IsHook(path) /\ lastOp'.event = "Stop" /\ RecentlyActive(path))
             => \A old \in RowsOf(store, path) :
                   /\ RowsOf(store', path) # {}
                   /\ \A new \in RowsOf(store', path) :
                         new.status = old.status /\ new.status # "idle"]_vars

C1_Witness ==
    /\ lastOp.op = "hook" /\ lastOp.event = "Stop"
    /\ now >= TickSeconds
    /\ \E row \in RowsOf(store, lastOp.path) :
          row.status \in {"running", "waiting"} /\ row.last_activity = now

\* the status the specification's table gives an event
TableStatus(event) ==
    IF event \in {"PreToolUse", "PostToolUse"} THEN "running"
    ELSE IF event = "Notification" THEN "waiting"
    ELSE IF event = "Stop" THEN "idle"
    ELSE "unknown"

EventNames == {"PreToolUse", "PostToolUse", "Notification", "Stop",
               "SubagentStop", "UserPromptSubmit", ""}

LastParsableIsAssistant(file) ==
    /\ file.exists
    /\ LET objs == {i \in 1..Len(file.lines) : file.lines[i].json = "object"}
       IN  /\ objs # {}
           /\ LET last == file.lines[MaxOf(objs)]
              IN  last.type = "assistant" \/ last.role = "assistant"

\* the event the stated precedence gives a payload
ClaimedEvent(payload, trs) ==
    IF payload.tool_input = "value" THEN "PreToolUse"
    ELSE IF payload.tool_output = "value" THEN "PostToolUse"
    ELSE IF payload.tool_name # "" THEN "PostToolUse"
    ELSE IF /\ payload.session_id # NoSession
            /\ payload.transcript_path # NoTranscript
            /\ LastParsableIsAssistant(trs[payload.transcript_path])
         THEN "Notification"
    ELSE "Stop"

\* C3: the hook classifies its payload by strict precedence: tool_input,
\* then tool_output, then a non-empty tool_name, then Notification when the
\* last parsable entry of the transcript is an assistant entry, else Stop.
C3_ClassificationPrecedence ==
    [][\A payload \in Payloads :
          Hook(PathSlash, payload) => lastOp'.event = ClaimedEvent(payload, transcripts)]_vars

\* C4: the store holds at most one row per path, and a hook replaces the
\* row of its path when there is one and appends a row only when there is
\* none, leaving the rows of the other paths as they were.
OneRowPerPath ==
    \A i, j \in 1..Len(store) : store[i].path = store[j].path => i = j

HookReplacesOrAppends ==
    \A path \in Paths :
        IsHook(path) =>
            /\ Len(store') = IF RowsOf(store, path) = {} THEN Len(store) + 1 ELSE Len(store)
            /\ \A i \in 1..Len(store) :
                  IF store[i].path = path THEN store'[i].path = path
                  ELSE store'[i] = store[i]

C4_AtMostOneRowPerPath == []OneRowPerPath /\ [][HookReplacesOrAppends]_vars

C4_Witness ==
    /\ Len(store) = 2
    /\ lastOp.op = "hook"
    /\ store[1].path = lastOp.path
    /\ store[1].last_activity > store[2].last_activity
    /\ transcriptWatchers # EmptyMap

(***************************************************************************)
(* The message queue (manager.go): one JSON file of messages per storage   *)
(* key, read and rewritten whole by every call                             *)
(***************************************************************************)

PathUnder  == <<"/", "a", "_", "b">>
QueuePaths == {PathSlash, PathUnder}

\* message texts, as sequences of code points: "hi" and U+4E2D
TextHi     == <<104, 105>>
TextWide   == <<20013>>
Texts      == {TextHi, TextWide}

\* the dashboard's requests that can be in progress at once
Dashboards == {"d1"}

\* the file name of a path's queue, without the directory and "messages_"
getMinionMessageFile(path) ==
    LET safeName == ReplaceAll(ReplaceAll(ReplaceAll(path, "/", "_"), "\\", "_"), ":", "_")
    IN  IF safeName = <<>> THEN <<"r", "o", "o", "t">> ELSE safeName

MessageFiles == {getMinionMessageFile(path) : path \in QueuePaths}

MinionMessage(id, path, message) == [id |-> id, path |-> path, message |-> message]

NoMessage     == MinionMessage(0, <<>>, <<>>)
NoMessageFile == [exists |-> FALSE, messages |-> <<>>]

\* the messages of a path's file, none when the file does not exist
GetMinionMessages(fs, path) ==
    LET file == fs[getMinionMessageFile(path)]
    IN  IF ~file.exists THEN <<>> ELSE file.messages

saveMinionMessages(fs, path, messages) ==
    [fs EXCEPT ![getMinionMessageFile(path)] = [exists |-> TRUE, messages |-> messages]]

\* os.Remove of the path's file, an error when there is no file to remove
ClearMinionMessages(fs, path) ==
    [err   |-> ~fs[getMinionMessageFile(path)].exists,
     files |-> [fs EXCEPT ![getMinionMessageFile(path)] = NoMessageFile]]

\* a pop that returns the newest message
PopMinionMessageKeeps(fs, messages, path) ==
    IF Len(messages) = 0
    THEN [has |-> FALSE, message |-> NoMessage, err |-> FALSE, files |-> fs]
    ELSE [has |-> TRUE, message |-> Head(messages), err |-> FALSE, files |-> fs]

PopMinionMessageNewest(fs, messages, path) ==
    IF Len(messages) = 0
    THEN [has |-> FALSE, message |-> NoMessage, err |-> FALSE, files |-> fs]
    ELSE IF Len(messages) = 1
    THEN [has |-> TRUE, message |-> messages[1],
          err |-> ClearMinionMessages(fs, path).err,
          files |-> ClearMinionMessages(fs, path).files]
    ELSE [has |-> TRUE, message |-> messages[Len(messages)], err |-> FALSE,
          files |-> saveMinionMessages(fs, path, SubSeq(messages, 1, Len(messages) - 1))]

\* what PopMinionMessage returns and leaves on disk, having read messages
\* from the path's file and finding the files fs when it writes
PopMinionMessage(fs, messages, path) ==
    IF Len(messages) = 0
    THEN [has |-> FALSE, message |-> NoMessage, err |-> FALSE, files |-> fs]
    ELSE IF Len(Tail(messages)) = 0
    THEN [has |-> TRUE, message |-> Head(messages),
          err |-> ClearMinionMessages(fs, path).err,
          files |-> ClearMinionMessages(fs, path).files]
    ELSE [has |-> TRUE, message |-> Head(messages), err |-> FALSE,
          files |-> saveMinionMessages(fs, path, Tail(messages))]

IdleCall == [pc |-> "idle", path |-> <<>>, message |-> <<>>, messages |-> <<>>]

QCall(op, path, messages, err) ==
    [op |-> op, path |-> path, messages |-> messages, err |-> err]

\* AddMinionMessage up to the return of GetMinionMessages
EnqueueReads(d, path, text, maxMessages) ==
    /\ enq[d].pc = "idle"
    /\ nextId < maxMessages
    /\ enq' = [enq EXCEPT ![d] = [pc |-> "read", path |-> path, message |-> text,
                                  messages |-> GetMinionMessages(files, path)]]
    /\ UNCHANGED <<files, pop, nextId, accepted, returned, qlast>>

\* AddMinionMessage from the new message's id to the return of saveMinionMessages
EnqueueWrites(d) ==
    /\ enq[d].pc = "read"
    /\ LET newMessage == MinionMessage(nextId + 1, enq[d].path, enq[d].message)
       IN  /\ files' = saveMinionMessages(files, enq[d].path,
                                          Append(enq[d].messages, newMessage))
           /\ accepted' = [accepted EXCEPT ![enq[d].path] = Append(@, newMessage)]
           /\ qlast' = QCall("enqueue", enq[d].path, <<newMessage>>, FALSE)
    /\ nextId' = nextId + 1
    /\ enq' = [enq EXCEPT ![d] = IdleCall]
    /\ UNCHANGED <<pop, returned>>

\* what the caller of PopMinionMessage has got when it returns result
PopReturns(path, result) ==
    /\ returned' = [returned EXCEPT ![path] =
                       IF result.has /\ ~result.err THEN Append(@, result.message) ELSE @]
    /\ qlast' = QCall("pop", path, IF result.has THEN <<result.message>> ELSE <<>>,
                      result.err)

\* PopMinionMessage up to the return of GetMinionMessages; with no message
\* read the call returns here
PopReads(path) ==
    /\ pop[path].pc = "idle"
    /\ LET messages == GetMinionMessages(files, path)
       IN  IF Len(messages) = 0
           THEN /\ PopReturns(path, PopMinionMessage(files, messages, path))
                /\ UNCHANGED pop
           ELSE /\ pop' = [pop EXCEPT ![path] = [IdleCall EXCEPT !.pc = "read",
                                                              !.path = path,
                                                              !.messages = messages]]
                /\ UNCHANGED <<returned, qlast>>
    /\ UNCHANGED <<files, enq, nextId, accepted>>

\* PopMinionMessage from the first message to its return
PopWrites(path) ==
    /\ pop[path].pc = "read"
    /\ LET result == PopMinionMessage(files, pop[path].messages, path)
       IN  /\ files' = result.files
           /\ PopReturns(path, result)
    /\ pop' = [pop EXCEPT ![path] = IdleCall]
    /\ UNCHANGED <<enq, nextId, accepted>>

\* a whole AddMinionMessage call, no other call running
Enqueues(path, text, maxMessages) ==
    /\ nextId < maxMessages
    /\ LET newMessage == MinionMessage(nextId + 1, path, text)
       IN  /\ files' = saveMinionMessages(files, path,
                          Append(GetMinionMessages(files, path), newMessage))
           /\ accepted' = [accepted EXCEPT ![path] = Append(@, newMessage)]
           /\ qlast' = QCall("enqueue", path, <<newMessage>>, FALSE)
    /\ nextId' = nextId + 1
    /\ UNCHANGED <<enq, pop, returned>>

\* a whole PopMinionMessage call, no other call running
Pops(path) ==
    /\ LET result == PopMinionMessage(files, GetMinionMessages(files, path), path)
       IN  /\ files' = result.files
           /\ PopReturns(path, result)
    /\ UNCHANGED <<enq, pop, nextId, accepted>>

Enqueue(path, text, maxMessages) ==
    Enqueues(path, text, maxMessages) /\ UNCHANGED <<hookVars, sup, diskVars>>
Pop(path) == Pops(path) /\ UNCHANGED <<hookVars, sup, diskVars>>

\* a whole GetMinionMessages call
PeekAll(path) ==
    /\ qlast' = QCall("peek", path, GetMinionMessages(files, path), FALSE)
    /\ UNCHANGED <<files, enq, pop, nextId, accepted, returned>>
    /\ UNCHANGED <<hookVars, sup, diskVars>>

EnqueueRead(d, path, text, maxMessages) ==
    EnqueueReads(d, path, text, maxMessages) /\ UNCHANGED <<hookVars, sup, diskVars>>
EnqueueWrite(d) == EnqueueWrites(d) /\ UNCHANGED <<hookVars, sup, diskVars>>
PopRead(path)   == PopReads(path) /\ UNCHANGED <<hookVars, sup, diskVars>>
PopWrite(path)  == PopWrites(path) /\ UNCHANGED <<hookVars, sup, diskVars>>

(***************************************************************************)
(* Specifications of the queue                                             *)
(***************************************************************************)

MaxMessages     == 3
MaxRaceMessages == 3

HookIdle ==
    /\ store = <<>> /\ now = 0
    /\ transcripts = [tp \in TranscriptFiles |-> NoFile]
    /\ statusEvent = FALSE /\ transcriptEvent = {}
    /\ repos = Repos /\ knownRepos = Repos
    /\ transcriptWatchers = EmptyMap /\ projectToSession = EmptyMap
    /\ lastOp = Op("start", <<>>, "")

QueueEmpty ==
    /\ files = [key \in MessageFiles |-> NoMessageFile]
    /\ enq = [d \in Dashboards |-> IdleCall]
    /\ pop = [path \in QueuePaths |-> IdleCall]
    /\ nextId = 0
    /\ accepted = [path \in QueuePaths |-> <<>>]
    /\ returned = [path \in QueuePaths |-> <<>>]
    /\ qlast = QCall("start", <<>>, <<>>, FALSE)

QueueInit == QueueEmpty /\ HookIdle /\ SupIdle /\ DiskIdle

\* calls made one after another
QueueNext ==
    \/ \E path \in QueuePaths, text \in Texts : Enqueue(path, text, MaxMessages)
    \/ \E path \in QueuePaths : Pop(path)
    \/ \E path \in QueuePaths : PeekAll(path)

QueueSpec == QueueInit /\ [][QueueNext]_vars

\* the dashboard's enqueue and the supervisors' pops, interleaved at their
\* file reads and writes
QueueRaceNext ==
    \/ \E d \in Dashboards, path \in QueuePaths :
          EnqueueRead(d, path, TextHi, MaxRaceMessages)
    \/ \E d \in Dashboards : EnqueueWrite(d)
    \/ \E path \in QueuePaths : PopRead(path)
    \/ \E path \in QueuePaths : PopWrite(path)

QueueRaceSpec == QueueInit /\ [][QueueRaceNext]_vars

(***************************************************************************)
(* Properties of the queue                                                 *)
(***************************************************************************)

\* nothing has been done under another path that shares this path's file
Alone(path) ==
    \A other \in QueuePaths \ {path} :
        getMinionMessageFile(other) = getMinionMessageFile(path) =>
            /\ accepted[other] = <<>> /\ returned[other] = <<>>
            /\ pop[other].pc = "idle"
            /\ \A d \in Dashboards : enq[d].pc = "read" => enq[d].path # other

\* C5: with calls made one after another on one path, a pop returns, without
\* an error, the oldest message enqueued and not yet returned, no message
\* when every enqueued message has been returned, and the path's file does
\* not exist once the last message has been popped.
C5_SequentialPopIsFifo ==
    [][\A path \in QueuePaths :
          (Pop(path) /\ Alone(path)) =>
             /\ ~qlast'.err
             /\ qlast'.messages =
                   IF Len(returned[path]) < Len(accepted[path])
                   THEN <<accepted[path][Len(returned[path]) + 1]>>
                   ELSE <<>>
             /\ returned'[path] = returned[path] \o qlast'.messages
             /\ Len(returned'[path]) = Len(accepted[path])
                   => ~files'[getMinionMessageFile(path)].exists]_vars

C5_Witness ==
    /\ Alone(PathSlash)
    /\ qlast.op = "pop" /\ qlast.path = PathSlash /\ qlast.messages = <<>> /\ ~qlast.err
    /\ Len(accepted[PathSlash]) = 3
    /\ returned[PathSlash] = accepted[PathSlash]
    /\ accepted[PathSlash][1].message # accepted[PathSlash][2].message
    /\ ~files[getMinionMessageFile(PathSlash)].exists

\* the messages a call in progress has read and will return or write back
InFlight(path) ==
    UNION {Range(enq[d].messages) : d \in {e \in Dashboards : enq[e].pc = "read"}}
       \cup Range(pop[path].messages)

ReturnedOnce(path) ==
    \A i, j \in 1..Len(returned[path]) :
        returned[path][i].id = returned[path][j].id => i = j

NoneLost(path) ==
    \A i \in 1..Len(accepted[path]) :
        \/ accepted[path][i] \in Range(returned[path])
        \/ accepted[path][i] \in Range(GetMinionMessages(files, path))
        \/ accepted[path][i] \in InFlight(path)

\* C6: when an enqueue and a pop on the same path interleave at their file
\* reads and writes, no accepted message is returned twice and none is lost:
\* each is returned, still in the file, or held by a call that is running.
C6_PopAtomicWithEnqueue ==
    \A path \in QueuePaths : Alone(path) => ReturnedOnce(path) /\ NoneLost(path)

\* C7: a message enqueued for a path is only ever returned by a pop or a
\* peekAll called with that same path.
C7_OwnQueuePerPath ==
    /\ \A path \in QueuePaths : \A i \in 1..Len(returned[path]) :
          returned[path][i].path = path
    /\ qlast.op \in {"pop", "peek"} =>
          \A i \in 1..Len(qlast.messages) : qlast.messages[i].path = qlast.path

(***************************************************************************)
(* The minion supervisor (main.go, handleMinionMode): the main goroutine,  *)
(* the message ticker goroutine, the stdin copier, the goroutine waiting   *)
(* for the child, and the child                                            *)
(***************************************************************************)

\* the supervisor's working directory
WorkingDir == PathSlash

\* byte(char) of a rune
ByteOf(char) == char % 256

\* the UTF-8 encoding of a code point below 65536
EncodeRune(char) ==
    IF char < 128 THEN <<char>>
    ELSE IF char < 2048 THEN <<192 + (char \div 64), 128 + (char % 64)>>
    ELSE <<224 + (char \div 4096), 128 + ((char \div 64) % 64), 128 + (char % 64)>>

CarriageReturn == 13

\* a check that finds the child running whatever the flag says
RunningAlways(s) == TRUE

\* the read of processRunning under the read lock
Running(s) == s.processRunning

\* one Write call on stdinPipe: the bytes, the message they belong to (0 for
\* forwarded stdin) and whether the call succeeded
WriteCall(id, bytes, ok) == [id |-> id, bytes |-> bytes, ok |-> ok]

\* the outcomes of a Write: an error on a closed pipe; on an open one whose
\* child has exited, an error or not as the platform and the open copies of
\* the read end have it
WriteOutcomes(s) ==
    IF s.pipe = "closed" THEN {FALSE}
    ELSE IF s.child = "exited" THEN {TRUE, FALSE}
    ELSE {TRUE}

SupInit(interactive) ==
    [interactive    |-> interactive,   \* stdinIsTerminal
     child          |-> "running",
     processExit    |-> "empty",       \* the channel: empty, sent, received
     processRunning |-> TRUE,
     stopTicker     |-> FALSE,         \* the channel is closed
     stdinDone      |-> FALSE,         \* the channel is closed
     pipe           |-> "open",        \* stdinPipe
     main           |-> "wait",
     via            |-> "",            \* what ended main's wait: exit or stdin
     ticker         |-> "select",
     message        |-> NoMessage,     \* the message the ticker is handling
     pos            |-> 0,             \* the next character of it to write
     childIn        |-> <<>>,          \* the Write calls on stdinPipe, in order
     forwarded      |-> 0,             \* bytes of real stdin forwarded so far
     injected       |-> <<>>,          \* ids whose check found the child running
     discarded      |-> {},            \* ids dropped by the check
     afterExit      |-> {},            \* ids enqueued after the child exited
     afterCleared   |-> {},            \* ids enqueued after processRunning = false
     code           |-> 0,             \* the child's exit code
     exitCode       |-> 0,             \* the supervisor's own exit code
     terminal       |-> IF interactive THEN "raw" ELSE "cooked"]  \* the real terminal

\* ---- the child and the goroutine of cmd.Wait

ChildExits ==
    /\ sup.child = "running"
    /\ sup' = [sup EXCEPT !.child = "exited"]
    /\ UNCHANGED <<hookVars, queueVars, diskVars>>

\* the child exits with a non-zero code
ChildFails(code) ==
    /\ sup.child = "running"
    /\ sup' = [sup EXCEPT !.child = "exited", !.code = code]
    /\ UNCHANGED <<hookVars, queueVars, diskVars>>

\* cmd.Wait returns and its result is sent on processExit; in piped mode
\* Wait closes the parent's end of the stdin pipe
WaitReturns ==
    /\ sup.child = "exited" /\ sup.processExit = "empty"
    /\ sup' = [sup EXCEPT !.processExit = "sent",
                          !.pipe = IF sup.interactive THEN @ ELSE "closed"]
    /\ UNCHANGED <<hookVars, queueVars, diskVars>>

\* ---- the stdin copier

\* io.Copy writes a byte of the supervisor's own stdin to stdinPipe
ForwardStdin(maxBytes) ==
    /\ sup.forwarded < maxBytes
    /\ ~sup.stdinDone \/ sup.interactive
    /\ \E ok \in WriteOutcomes(sup) :
          sup' = [sup EXCEPT !.forwarded = @ + 1,
                             !.childIn = Append(@, WriteCall(0, <<120>>, ok)),
                             !.stdinDone = IF sup.interactive THEN @ ELSE @ \/ ~ok]
    /\ UNCHANGED <<hookVars, queueVars, diskVars>>

\* the copier goroutine returns and closes stdinDone: at once in terminal
\* mode, at the end of stdin in piped mode
StdinDone ==
    /\ ~sup.stdinDone
    /\ sup' = [sup EXCEPT !.stdinDone = TRUE]
    /\ UNCHANGED <<hookVars, queueVars, diskVars>>

\* ---- the main goroutine

MainReceivesExit ==
    /\ sup.main = "wait" /\ sup.processExit = "sent"
    /\ sup' = [sup EXCEPT !.processExit = "received", !.main = "observed", !.via = "exit"]
    /\ UNCHANGED <<hookVars, queueVars, diskVars>>

MainSeesStdinDone ==
    /\ sup.main = "wait" /\ ~sup.interactive /\ sup.stdinDone
    /\ sup' = [sup EXCEPT !.main = "observed", !.via = "stdin"]
    /\ UNCHANGED <<hookVars, queueVars, diskVars>>

MainClearsRunning ==
    /\ sup.main = "observed"
    /\ sup' = [sup EXCEPT !.processRunning = FALSE, !.main = "cleared"]
    /\ UNCHANGED <<hookVars, queueVars, diskVars>>

MainStopsTicker ==
    /\ sup.main = "cleared"
    /\ sup' = [sup EXCEPT !.stopTicker = TRUE, !.main = "grace"]
    /\ UNCHANGED <<hookVars, queueVars, diskVars>>

\* after the 50 ms sleep
MainClosesPipe ==
    /\ sup.main = "grace"
    /\ sup' = [sup EXCEPT !.pipe = "closed",
                          !.main = IF sup.via = "stdin" THEN "wait_exit" ELSE "done"]
    /\ UNCHANGED <<hookVars, queueVars, diskVars>>

MainReceivesExitLate ==
    /\ sup.main = "wait_exit" /\ sup.processExit = "sent"
    /\ sup' = [sup EXCEPT !.processExit = "received", !.main = "done"]
    /\ UNCHANGED <<hookVars, queueVars, diskVars>>

\* the end of handleMinionMode: with a nil error it returns, its deferred
\* calls run (term.Restore among them) and main calls os.Exit(0); with an
\* ExitError it calls os.Exit with the child's code, which runs no deferred
\* call
MainExits ==
    /\ sup.main = "done"
    /\ sup' = [sup EXCEPT !.main = "exited",
                          !.exitCode = sup.code,
                          !.terminal = IF sup.code = 0 /\ sup.interactive
                                       THEN "restored" ELSE @]
    /\ UNCHANGED <<hookVars, queueVars, diskVars>>

\* ---- the message ticker goroutine

\* case <-messageTicker.C with the whole PopMinionMessage call; an error
\* skips the tick, no message goes back to the select
TickerPop ==
    /\ sup.ticker = "select"
    /\ Pops(WorkingDir)
    /\ LET result == PopMinionMessage(files, GetMinionMessages(files, WorkingDir), WorkingDir)
       IN  sup' = IF result.err \/ ~result.has
                  THEN sup
                  ELSE [sup EXCEPT !.ticker = "check", !.message = result.message]
    /\ UNCHANGED <<hookVars, diskVars>>

\* case <-messageTicker.C, up to the file read of PopMinionMessage
TickerPopRead ==
    /\ sup.ticker = "select"
    /\ PopReads(WorkingDir)
    /\ sup' = [sup EXCEPT !.ticker =
                  IF Len(GetMinionMessages(files, WorkingDir)) = 0 THEN "select" ELSE "popping"]
    /\ UNCHANGED <<hookVars, diskVars>>

\* the rest of PopMinionMessage; an error skips the tick
TickerPopWrite ==
    /\ sup.ticker = "popping"
    /\ PopWrites(WorkingDir)
    /\ LET result == PopMinionMessage(files, pop[WorkingDir].messages, WorkingDir)
       IN  sup' = IF result.err
                  THEN [sup EXCEPT !.ticker = "select"]
                  ELSE [sup EXCEPT !.ticker = "check", !.message = result.message]
    /\ UNCHANGED <<hookVars, diskVars>>

TickerCheckTypesAnyway ==
    /\ sup.ticker = "check"
    /\ sup' = IF Running(sup)
              THEN [sup EXCEPT !.ticker = "write", !.pos = 1,
                               !.injected = Append(@, sup.message.id)]
              ELSE [sup EXCEPT !.ticker = "write", !.pos = 1,
                               !.discarded = @ \cup {sup.message.id}]
    /\ UNCHANGED <<hookVars, queueVars, diskVars>>

\* the check of processRunning
TickerCheck ==
    /\ sup.ticker = "check"
    /\ sup' = IF Running(sup)
              THEN [sup EXCEPT !.ticker = "write", !.pos = 1,
                               !.injected = Append(@, sup.message.id)]
              ELSE [sup EXCEPT !.ticker = "select", !.message = NoMessage,
                               !.discarded = @ \cup {sup.message.id}]
    /\ UNCHANGED <<hookVars, queueVars, diskVars>>

\* one character of the message, then the 10 ms sleep
TickerWriteChar ==
    /\ sup.ticker = "write" /\ sup.pos <= Len(sup.message.message)
    /\ \E ok \in WriteOutcomes(sup) :
          sup' = [sup EXCEPT !.pos = @ + 1,
                             !.childIn = Append(@, WriteCall(sup.message.id,
                                            <<ByteOf(sup.message.message[sup.pos])>>, ok))]
    /\ UNCHANGED <<hookVars, queueVars, diskVars>>

\* the carriage return, and back to the select
TickerWriteEnter ==
    /\ sup.ticker = "write" /\ sup.pos > Len(sup.message.message)
    /\ \E ok \in WriteOutcomes(sup) :
          sup' = [sup EXCEPT !.ticker = "select", !.pos = 0, !.message = NoMessage,
                             !.childIn = Append(@, WriteCall(sup.message.id,
                                                             <<CarriageReturn>>, ok))]
    /\ UNCHANGED <<hookVars, queueVars, diskVars>>

\* case <-processExit
TickerReceivesExit ==
    /\ sup.ticker = "select" /\ sup.processExit = "sent"
    /\ sup' = [sup EXCEPT !.processExit = "received", !.ticker = "returned"]
    /\ UNCHANGED <<hookVars, queueVars, diskVars>>

\* case <-stopTicker
TickerStops ==
    /\ sup.ticker = "select" /\ sup.stopTicker
    /\ sup' = [sup EXCEPT !.ticker = "returned"]
    /\ UNCHANGED <<hookVars, queueVars, diskVars>>

\* ---- the dashboard, enqueueing for the supervisor's directory

\* the supervisor's record of when a message was enqueued
Enqueued(s, id) ==
    [s EXCEPT !.afterExit    = IF s.child = "exited" THEN @ \cup {id} ELSE @,
              !.afterCleared = IF ~s.processRunning THEN @ \cup {id} ELSE @]

MinionEnqueue(text, maxMessages) ==
    /\ Enqueues(WorkingDir, text, maxMessages)
    /\ sup' = Enqueued(sup, nextId + 1)
    /\ UNCHANGED <<hookVars, diskVars>>

MinionEnqueueRead(d, text, maxMessages) == EnqueueRead(d, WorkingDir, text, maxMessages)

MinionEnqueueWrite(d) ==
    /\ EnqueueWrites(d)
    /\ sup' = Enqueued(sup, nextId + 1)
    /\ UNCHANGED <<hookVars, diskVars>>

(***************************************************************************)
(* Specification of the supervisor                                         *)
(***************************************************************************)

MaxMinionMessages == 2
MaxStdinBytes     == 1

MinionInit ==
    /\ QueueEmpty /\ HookIdle /\ DiskIdle
    /\ \E interactive \in BOOLEAN : sup = SupInit(interactive)

MinionNext ==
    \/ \E text \in Texts : MinionEnqueue(text, MaxMinionMessages)
    \/ ChildExits
    \/ WaitReturns
    \/ ForwardStdin(MaxStdinBytes)
    \/ StdinDone
    \/ MainReceivesExit
    \/ MainSeesStdinDone
    \/ MainClearsRunning
    \/ MainStopsTicker
    \/ MainClosesPipe
    \/ MainReceivesExitLate
    \/ TickerPop
    \/ TickerCheck
    \/ TickerWriteChar
    \/ TickerWriteEnter
    \/ TickerReceivesExit
    \/ TickerStops

MinionSpec == MinionInit /\ [][MinionNext]_vars

\* the ticker goroutine and the dashboard while the child runs, the queue
\* calls of both interleaved at their file reads and writes
MinionRaceInit ==
    /\ QueueEmpty /\ HookIdle /\ DiskIdle
    /\ sup = SupInit(TRUE)

MinionRaceNext ==
    \/ \E d \in Dashboards : MinionEnqueueRead(d, TextHi, MaxRaceMessages)
    \/ \E d \in Dashboards : MinionEnqueueWrite(d)
    \/ TickerPopRead
    \/ TickerPopWrite
    \/ TickerCheck
    \/ TickerWriteChar
    \/ TickerWriteEnter

MinionRaceSpec == MinionRaceInit /\ [][MinionRaceNext]_vars

(***************************************************************************)
(* Properties of the supervisor                                            *)
(***************************************************************************)

IsPrefix(s, t) == Len(s) <= Len(t) /\ \A i \in 1..Len(s) : s[i] = t[i]

IsMessageWrite(w) == w.id # 0

\* the Write calls of injections, without the forwarded stdin
MessageWrites == SelectSeq(sup.childIn, IsMessageWrite)

\* the bytes of the Write calls made for message id, call by call
WritesFor(id) ==
    LET Mine(w) == w.id = id
        calls   == SelectSeq(sup.childIn, Mine)
    IN  [i \in 1..Len(calls) |-> calls[i].bytes]

TextOf(id) == (CHOOSE m \in Range(accepted[WorkingDir]) : m.id = id).message

\* one write per character, holding the character, then one carriage return
ExpectedWrites(text) ==
    [i \in 1..(Len(text) + 1) |->
        IF i <= Len(text) THEN EncodeRune(text[i]) ELSE <<CarriageReturn>>]

\* C8: for every message popped while the child is alive and found running
\* by the supervisor's check, the supervisor's writes are the characters of
\* the message, one write per character in order, then one carriage return,
\* with no byte added, dropped or changed.
C8_InjectedBytesAreTheMessage ==
    \A k \in 1..Len(sup.injected) :
        LET id == sup.injected[k]
        IN  /\ IsPrefix(WritesFor(id), ExpectedWrites(TextOf(id)))
            /\ sup.message.id # id => WritesFor(id) = ExpectedWrites(TextOf(id))

InjectedInOrder ==
    \A i, j \in 1..Len(sup.injected) :
        i < j => sup.injected[i] < sup.injected[j]

\* no message is popped or written before the one before it is written out
OneAtATime ==
    /\ sup.ticker # "write" /\ Len(MessageWrites) > 0 =>
          MessageWrites[Len(MessageWrites)].bytes = <<CarriageReturn>>
    /\ \A i \in 1..(Len(MessageWrites) - 1) :
          MessageWrites[i].bytes # <<CarriageReturn>> =>
             MessageWrites[i + 1].id = MessageWrites[i].id

\* a pop that returns a message is one step of the ticker, from its select
OnePopPerTick ==
    returned'[WorkingDir] # returned[WorkingDir] =>
        /\ Len(returned'[WorkingDir]) = Len(returned[WorkingDir]) + 1
        /\ sup.ticker \in {"select", "popping"} /\ sup'.ticker = "check"

\* C9: the supervisor injects the messages of its directory in enqueue
\* order, each once, and one at a time: at most one pop per tick, and
\* message k is written out, carriage return included, before message k+1
\* is popped or written.
C9_InjectsInEnqueueOrder ==
    [](InjectedInOrder /\ OneAtATime) /\ [][OnePopPerTick]_vars

\* C10: after the child has exited, no byte of a message enqueued afterwards
\* is written to the child's input.
C10_NoByteOfMessageEnqueuedAfterExit ==
    \A i \in 1..Len(sup.childIn) :
        sup.childIn[i].ok => sup.childIn[i].id \notin sup.afterExit

\* C10, amended: once the supervisor has cleared its processRunning flag, no
\* Write is made for a message that is enqueued afterwards.
C10_NoByteOfMessageEnqueuedAfterFlagCleared ==
    \A i \in 1..Len(sup.childIn) : sup.childIn[i].id \notin sup.afterCleared

C10_Witness ==
    /\ sup.child = "exited" /\ sup.via = "exit"
    /\ sup.afterCleared \cap sup.discarded # {}
    /\ Len(sup.injected) = 1
    /\ WritesFor(sup.injected[1]) = ExpectedWrites(TextOf(sup.injected[1]))

(***************************************************************************)
(* The end of the supervisor                                               *)
(***************************************************************************)

MaxExitMessages == 1
ExitCodes       == {1}

MinionExitNext ==
    \/ MinionEnqueue(TextHi, MaxExitMessages)
    \/ ChildExits
    \/ \E code \in ExitCodes : ChildFails(code)
    \/ WaitReturns
    \/ StdinDone
    \/ MainReceivesExit
    \/ MainSeesStdinDone
    \/ MainClearsRunning
    \/ MainStopsTicker
    \/ MainClosesPipe
    \/ MainReceivesExitLate
    \/ MainExits
    \/ TickerPop
    \/ TickerCheck
    \/ TickerWriteChar
    \/ TickerWriteEnter
    \/ TickerReceivesExit
    \/ TickerStops

\* the steps of the main goroutine, of the ticker goroutine and of the
\* goroutine of cmd.Wait; the scheduler runs every goroutine that can run
MainStep ==
    \/ MainReceivesExit \/ MainSeesStdinDone \/ MainClearsRunning \/ MainStopsTicker
    \/ MainClosesPipe \/ MainReceivesExitLate \/ MainExits

TickerStep ==
    \/ TickerPop \/ TickerCheck \/ TickerWriteChar \/ TickerWriteEnter
    \/ TickerReceivesExit \/ TickerStops

MinionExitSpec ==
    /\ MinionInit
    /\ [][MinionExitNext]_vars
    /\ WF_vars(MainStep) /\ WF_vars(TickerStep) /\ WF_vars(WaitReturns)
    /\ WF_vars(StdinDone)

\* C11: once the child has exited the supervisor eventually exits, with the
\* child's exit code as its own, in both modes and whichever goroutine
\* receives from processExit.
C11_SupervisorExitsWithChildCode ==
    /\ (sup.child = "exited") ~> (sup.main = "exited")
    /\ [](sup.main = "exited" => sup.exitCode = sup.code)

\* C12: in interactive mode the real terminal's mode has been restored when
\* the supervisor has exited, for every exit code of the child.
C12_TerminalRestoredBeforeExit ==
    sup.main = "exited" /\ sup.interactive => sup.terminal = "restored"

(***************************************************************************)
(* Removal from the queue and injection                                    *)
(***************************************************************************)

QueuedIds == {m.id : m \in Range(GetMinionMessages(files, WorkingDir))}

\* the messages the ticker has popped: typed, discarded or in hand
PoppedIds ==
    Range(sup.injected) \cup sup.discarded
        \cup (IF sup.message.id # 0 THEN {sup.message.id} ELSE {})

\* the messages one of whose writes returned an error
FailedIds == {sup.childIn[i].id : i \in {j \in DOMAIN sup.childIn :
                  IsMessageWrite(sup.childIn[j]) /\ ~sup.childIn[j].ok}}

NoRow == AgentStatus(<<>>, "", 0, NoSession, NoTranscript)

Token(kind, row) == [kind |-> kind, row |-> row]

OpenBracket  == Token("[", NoRow)
CloseBracket == Token("]", NoRow)
Comma        == Token(",", NoRow)

ObjectKinds == {"current", "legacy", "legacyMistyped", "mistyped"}

\* json.Unmarshal ignores the fields the target type does not have
CurrentSchema == {"current", "legacy", "legacyMistyped"}
LegacySchema  == {"current", "legacy"}

StatusFile(exists, data, modTime, writes) ==
    [exists |-> exists, data |-> data, modTime |-> modTime, writes |-> writes]

\* json.MarshalIndent of a table
MarshalIndent(statuses) ==
    <<OpenBracket>>
    \o [i \in 1..(2 * Len(statuses) - 1) |->
            IF i % 2 = 1 THEN Token("current", statuses[(i + 1) \div 2]) ELSE Comma]
    \o <<CloseBracket>>

\* whether data is a JSON array of objects
IsArray(data) ==
    /\ Len(data) >= 2
    /\ data[1] = OpenBracket /\ data[Len(data)] = CloseBracket
    /\ LET inner == SubSeq(data, 2, Len(data) - 1)
       IN  /\ Len(inner) = 0 \/ Len(inner) % 2 = 1
           /\ \A i \in 1..Len(inner) :
                 IF i % 2 = 1 THEN inner[i].kind \in ObjectKinds ELSE inner[i] = Comma

\* json.Unmarshal of data into a slice of the schema's struct: a syntax
\* error, a type error, or the rows
Unmarshal(data, schema) ==
    LET inner == SubSeq(data, 2, Len(data) - 1)
        ok == IsArray(data) /\ \A i \in 1..Len(inner) :
                                  i % 2 = 1 => inner[i].kind \in schema
    IN  [err |-> ~ok,
         statuses |-> IF ok THEN [i \in 1..((Len(inner) + 1) \div 2) |-> inner[2 * i - 1].row]
                      ELSE <<>>]

\* strings.HasSuffix(dataStr, "]]") and strings.TrimSuffix(dataStr, "]")
HasSuffixBrackets(data) ==
    Len(data) >= 2 /\ data[Len(data)] = CloseBracket /\ data[Len(data) - 1] = CloseBracket

TrimSuffixBracket(data) ==
    IF Len(data) >= 1 /\ data[Len(data)] = CloseBracket
    THEN SubSeq(data, 1, Len(data) - 1) ELSE data

cleanOldFields(statuses) == statuses

recoverLegacyOnly(data) ==
    [err |-> Unmarshal(data, LegacySchema).err,
     statuses |-> Unmarshal(data, LegacySchema).statuses]

recoverCorruptedAgentStatus(data) ==
    IF HasSuffixBrackets(data) /\ ~Unmarshal(TrimSuffixBracket(data), CurrentSchema).err
    THEN [err |-> FALSE,
          statuses |-> cleanOldFields(Unmarshal(TrimSuffixBracket(data), CurrentSchema).statuses)]
    ELSE IF ~Unmarshal(data, LegacySchema).err
    THEN [err |-> FALSE, statuses |-> Unmarshal(data, LegacySchema).statuses]
    ELSE [err |-> TRUE, statuses |-> <<>>]

\* the registered change subscribers, in the order of AddStatusChangeCallback
Subscribers == <<"c1", "c2">>

Invocation(subscriber, by, write) == [subscriber |-> subscriber, by |-> by, write |-> write]

\* notifyStatusChange: every callback, one after the other, for the state
\* of the file after its write number `write`
notifyStatusChange(log, by, write) ==
    log \o [i \in 1..Len(Subscribers) |-> Invocation(Subscribers[i], by, write)]

\* SaveAgentStatus: the file and the subscribers' log afterwards; written
\* tells whether os.WriteFile succeeded
SaveAgentStatus(file, log, statuses, written, t) ==
    IF written
    THEN [err |-> FALSE,
          file |-> StatusFile(TRUE, MarshalIndent(statuses), t, file.writes + 1),
          log |-> notifyStatusChange(log, "save", file.writes + 1)]
    ELSE [err |-> TRUE, file |-> file, log |-> log]

GetAgentStatusReportsCorruption(file, log, written, t) ==
    IF ~file.exists
    THEN [err |-> FALSE, statuses |-> <<>>, file |-> file, log |-> log]
    ELSE [err |-> Unmarshal(file.data, CurrentSchema).err,
          statuses |-> Unmarshal(file.data, CurrentSchema).statuses,
          file |-> file, log |-> log]

\* GetAgentStatus: what it returns, and the file and the subscribers' log
\* afterwards (a recovered table is saved, an error of that save is only
\* logged)
GetAgentStatus(file, log, written, t) ==
    IF ~file.exists
    THEN [err |-> FALSE, statuses |-> <<>>, file |-> file, log |-> log]
    ELSE IF ~Unmarshal(file.data, CurrentSchema).err
    THEN [err |-> FALSE, statuses |-> Unmarshal(file.data, CurrentSchema).statuses,
          file |-> file, log |-> log]
    ELSE IF recoverCorruptedAgentStatus(file.data).err
    THEN [err |-> FALSE, statuses |-> <<>>, file |-> file, log |-> log]
    ELSE LET recovered == recoverCorruptedAgentStatus(file.data).statuses
             saved == SaveAgentStatus(file, log, recovered, written, t)
         IN  [err |-> FALSE, statuses |-> recovered,
              file |-> saved.file, log |-> saved.log]

NoLoad == [op |-> "none", data |-> <<>>, exists |-> FALSE, err |-> FALSE, statuses |-> <<>>]

\* a call of GetAgentStatus in the dashboard process
Load ==
    /\ \E written \in BOOLEAN :
          LET result == GetAgentStatus(statusFile, notified, written, now)
          IN  /\ loaded' = [op |-> "load", data |-> statusFile.data,
                            exists |-> statusFile.exists,
                            err |-> result.err, statuses |-> result.statuses]
              /\ statusFile' = result.file
              /\ notified' = result.log
    /\ UNCHANGED <<hookVars, queueVars, sup, hub, fileWatcher, writers, handlers, openWatchers>>

\* a call of SaveAgentStatus in the dashboard process
Save(statuses, maxWrites) ==
    /\ statusFile.writes < maxWrites
    /\ \E written \in BOOLEAN :
          LET result == SaveAgentStatus(statusFile, notified, statuses, written, now)
          IN  /\ loaded' = [op |-> "save", data |-> statusFile.data,
                            exists |-> statusFile.exists,
                            err |-> result.err, statuses |-> statuses]
              /\ statusFile' = result.file
              /\ notified' = result.log
    /\ UNCHANGED <<hookVars, queueVars, sup, hub, fileWatcher, writers, handlers, openWatchers>>

\* damage to the file: one more closing bracket at its end
ExtraBracket(maxTokens, maxWrites) ==
    /\ statusFile.exists /\ Len(statusFile.data) < maxTokens
    /\ statusFile.writes < maxWrites
    /\ statusFile' = [statusFile EXCEPT !.data = Append(@, CloseBracket)]
    /\ UNCHANGED <<hookVars, queueVars, sup, loaded, notified, hub, fileWatcher, writers,
                   handlers, openWatchers>>

\* damage to the file: its end is missing
CutShort ==
    /\ statusFile.exists /\ Len(statusFile.data) > 0
    /\ statusFile' = [statusFile EXCEPT !.data = SubSeq(@, 1, Len(@) - 1)]
    /\ UNCHANGED <<hookVars, queueVars, sup, loaded, notified, hub, fileWatcher, writers,
                   handlers, openWatchers>>

MaxFileTokens == 6
MaxWrites     == 2

FileRow(path) == AgentStatus(path, "idle", 0, NoSession, NoTranscript)

\* the arrays of at most two objects, of every kind
FileArrays ==
    {<<OpenBracket, CloseBracket>>}
    \cup {<<OpenBracket, Token(k, FileRow(p)), CloseBracket>> : k \in ObjectKinds, p \in Paths}
    \cup {<<OpenBracket, Token(k1, FileRow(PathSlash)), Comma,
            Token(k2, FileRow(PathDash)), CloseBracket>> : k1, k2 \in ObjectKinds}

Tables == {<<>>, <<FileRow(PathSlash)>>, <<FileRow(PathSlash), FileRow(PathDash)>>}

LoadInit ==
    /\ HookIdle /\ QueueIdle /\ SupIdle
    /\ \/ statusFile = StatusFile(FALSE, <<>>, 0, 0)
       \/ \E data \in FileArrays : statusFile = StatusFile(TRUE, data, 0, 0)
    /\ loaded = NoLoad
    /\ notified = <<>>
    /\ hub = <<>> /\ fileWatcher = <<>> /\ writers = <<>>
    /\ handlers = <<>> /\ openWatchers = <<>>

LoadNext ==
    \/ Load
    \/ \E statuses \in Tables : Save(statuses, MaxWrites)
    \/ ExtraBracket(MaxFileTokens, MaxWrites)
    \/ CutShort

LoadSpec == LoadInit /\ [][LoadNext]_vars

(***************************************************************************)
(* Properties of loading the Status Store                                  *)
(***************************************************************************)

\* the rows of a well-formed file of the current schema
RowsOfFile(data) == Unmarshal(data, CurrentSchema).statuses

WellFormed(data) == ~Unmarshal(data, CurrentSchema).err

\* C14: loading a file that is a well-formed status array followed by one
\* extra closing bracket succeeds and returns exactly the rows of the
\* well-formed file.
C14_ExtraBracketLoadsRows ==
    (/\ loaded.op = "load" /\ loaded.exists
     /\ Len(loaded.data) >= 3
     /\ loaded.data[Len(loaded.data)] = CloseBracket
     /\ WellFormed(SubSeq(loaded.data, 1, Len(loaded.data) - 1)))
    => /\ ~loaded.err
       /\ loaded.statuses = RowsOfFile(SubSeq(loaded.data, 1, Len(loaded.data) - 1))

C14_Witness ==
    /\ loaded.op = "load" /\ loaded.exists
    /\ Len(loaded.data) = 6
    /\ loaded.data[6] = CloseBracket
    /\ WellFormed(SubSeq(loaded.data, 1, 5))
    /\ ~loaded.err
    /\ Len(loaded.statuses) = 2
    /\ statusFile.data = MarshalIndent(loaded.statuses)

\* the two repairs, each on its own
BracketRepair(data) ==
    IF HasSuffixBrackets(data)
    THEN Unmarshal(SubSeq(data, 1, Len(data) - 1), CurrentSchema)
    ELSE [err |-> TRUE, statuses |-> <<>>]

LegacyRepair(data) == Unmarshal(data, LegacySchema)

FileWatcherInit(file) ==
    [isZero |-> ~file.exists, lastModTime |-> IF file.exists THEN file.modTime ELSE 0]

\* stat.ModTime().After(lastModTime)
After(file, watcher) == watcher.isZero \/ file.modTime > watcher.lastModTime

\* case <-ticker.C of FileWatcher.start, every second
FileWatcherTick ==
    /\ statusFile.exists /\ After(statusFile, fileWatcher)
    /\ fileWatcher' = [isZero |-> FALSE, lastModTime |-> statusFile.modTime]
    /\ notified' = notifyStatusChange(notified, "watcher", statusFile.writes)
    /\ UNCHANGED <<hookVars, queueVars, sup, statusFile, loaded, writers,
                   handlers, openWatchers, hub>>

\* time passes in the dashboard process
Tick(maxNow) ==
    /\ now < maxNow
    /\ now' = now + 1
    /\ UNCHANGED <<store, transcripts, statusEvent, transcriptEvent, repos, knownRepos,
                   transcriptWatchers, projectToSession, lastOp>>
    /\ UNCHANGED <<queueVars, sup, diskVars>>

MaxNotifyWrites == 2
MaxNotifyNow    == 2

NotifyInit ==
    /\ HookIdle /\ QueueIdle /\ SupIdle
    /\ statusFile = StatusFile(FALSE, <<>>, 0, 0)
    /\ loaded = NoLoad
    /\ notified = <<>>
    /\ hub = <<>> /\ fileWatcher = FileWatcherInit(statusFile)
    /\ writers = <<>>
    /\ handlers = <<>> /\ openWatchers = <<>>

NotifyNext ==
    \/ \E statuses \in Tables : Save(statuses, MaxNotifyWrites)
    \/ Load
    \/ FileWatcherTick
    \/ Tick(MaxNotifyNow)

NotifySpec == NotifyInit /\ [][NotifyNext]_vars

\* the invocations of a subscriber for the file as its write number n left it
InvocationsFor(subscriber, n) ==
    {i \in 1..Len(notified) : notified[i].subscriber = subscriber /\ notified[i].write = n}

HookPath    == PathSlash
WatcherPath == PathDash

Writers == {"hook", "watcher"}

Writer(pc, statuses, status) == [pc |-> pc, statuses |-> statuses, status |-> status]

\* the row of path set to running and touched, as handleTranscriptChange
\* does for an idle row on a conversation message
TouchRunning(statuses, path, t) ==
    LET i == FirstIndex(statuses, path)
    IN  [statuses EXCEPT ![i] = [@ EXCEPT !.last_activity = t,
                                          !.status = IF @ \in {"idle", "unknown"}
                                                     THEN "running" ELSE @]]

\* handleHookMode: GetAgentStatus, then the update of its own row in memory
HookReads ==
    /\ writers["hook"].pc = "idle"
    /\ \E status \in {"running", "waiting"} :
          LET result == GetAgentStatus(statusFile, <<>>, TRUE, now)
              agentStatus == AgentStatus(HookPath, status, now, NoSession, NoTranscript)
          IN  /\ statusFile' = result.file
              /\ writers' = [writers EXCEPT !["hook"] =
                                Writer("read", Upsert(result.statuses, agentStatus), status)]
    /\ UNCHANGED <<hookVars, queueVars, sup, loaded, notified, hub, fileWatcher,
                   handlers, openWatchers>>

\* handleTranscriptChange: GetAgentStatus, the search of the row of the
\* transcript's project (none: return), then its update in memory
WatcherReads ==
    /\ writers["watcher"].pc = "idle"
    /\ \E written \in BOOLEAN :
          LET result == GetAgentStatus(statusFile, notified, written, now)
          IN  /\ statusFile' = result.file
              /\ notified' = result.log
              /\ writers' = [writers EXCEPT !["watcher"] =
                    IF FirstIndex(result.statuses, WatcherPath) = 0
                    THEN Writer("norow", result.statuses, "")
                    ELSE Writer("read", TouchRunning(result.statuses, WatcherPath, now),
                                "running")]
    /\ UNCHANGED <<hookVars, queueVars, sup, loaded, hub, fileWatcher,
                   handlers, openWatchers>>

\* os.WriteFile opens the file: it exists and is empty
Truncates(w) ==
    /\ writers[w].pc = "read"
    /\ statusFile' = [statusFile EXCEPT !.exists = TRUE, !.data = <<>>, !.modTime = now]
    /\ writers' = [writers EXCEPT ![w].pc = "opened"]
    /\ UNCHANGED <<hookVars, queueVars, sup, loaded, notified, hub, fileWatcher,
                   handlers, openWatchers>>

\* os.WriteFile writes the table and SaveAgentStatus notifies the
\* subscribers of its process (the hook process has none)
Writes(w) ==
    /\ writers[w].pc = "opened"
    /\ statusFile' = StatusFile(TRUE, MarshalIndent(writers[w].statuses), now,
                                statusFile.writes + 1)
    /\ notified' = IF w = "watcher"
                   THEN notifyStatusChange(notified, "save", statusFile.writes + 1)
                   ELSE notified
    /\ writers' = [writers EXCEPT ![w].pc = "done"]
    /\ UNCHANGED <<hookVars, queueVars, sup, loaded, hub, fileWatcher,
                   handlers, openWatchers>>

\* the table at the start: a row of each path, in either order, or only the
\* watcher's
UpdateTables ==
    {<<FileRow(HookPath), FileRow(WatcherPath)>>,
     <<FileRow(WatcherPath), FileRow(HookPath)>>,
     <<FileRow(WatcherPath)>>}

UpdateInit ==
    /\ HookIdle /\ QueueIdle /\ SupIdle
    /\ \E statuses \in UpdateTables :
          statusFile = StatusFile(TRUE, MarshalIndent(statuses), 0, 0)
    /\ loaded = NoLoad
    /\ notified = <<>>
    /\ hub = <<>> /\ fileWatcher = <<>>
    /\ writers = [w \in Writers |-> Writer("idle", <<>>, "")]
    /\ handlers = <<>> /\ openWatchers = <<>>

UpdateNext ==
    \/ HookReads
    \/ WatcherReads
    \/ \E w \in Writers : Truncates(w)
    \/ \E w \in Writers : Writes(w)

UpdateSpec == UpdateInit /\ [][UpdateNext]_vars

\* the status of path in the table on disk, "" without a row
StatusOnDisk(path) ==
    LET statuses == Unmarshal(statusFile.data, CurrentSchema).statuses
        i == FirstIndex(statuses, path)
    IN  IF i = 0 THEN "" ELSE statuses[i].status

\* C17: when an update of the hook's path and an update of the watcher's
\* path have both finished, the table holds both; no writer has taken the
\* file for a table without the rows it had.
C17_ConcurrentUpdatesSerialized ==
    /\ \A w \in Writers : writers[w].pc # "idle" =>
          FirstIndex(writers[w].statuses, WatcherPath) # 0
    /\ (\A w \in Writers : writers[w].pc \in {"done", "norow"}) =>
          /\ StatusOnDisk(HookPath) = writers["hook"].status
          /\ StatusOnDisk(WatcherPath) = "running"

(***************************************************************************)
(* A project whose session changes                                         *)
(***************************************************************************)

RotateSessions == {"s1", "s2"}

RotateFile(session) == TranscriptFile(ProjectDirName(PathSlash), session)

\* the payload of a PreToolUse hook of a session
SessionPayload(session) ==
    [session_id |-> session, transcript_path |-> RotateFile(session),
     tool_name |-> "Bash", tool_input |-> "value", tool_output |-> "absent"]

MaxRotateLines == 2

RotateInit ==
    /\ store = <<>> /\ now = 0
    /\ transcripts = [tp \in {RotateFile(session) : session \in RotateSessions} |-> NoFile]
    /\ statusEvent = TRUE /\ transcriptEvent = {}
    /\ repos = Repos /\ knownRepos = Repos
    /\ transcriptWatchers = EmptyMap /\ projectToSession = EmptyMap
    /\ lastOp = Op("start", <<>>, "")
    /\ QueueIdle /\ SupIdle /\ DiskIdle

RotateNext ==
    \/ \E session \in RotateSessions : Hook(PathSlash, SessionPayload(session))
    \/ HandleAgentStatusChange
    \/ \E tp \in DOMAIN transcripts : HandleTranscriptChange(tp)
    \/ \E session \in RotateSessions, line \in ConversationLines(now) :
          AppendLine(RotateFile(session), line, MaxRotateLines)

RotateSpec == RotateInit /\ [][RotateNext]_vars

\* a step of handleAgentStatusChange
IsStatusChange ==
    /\ statusEvent
    /\ lastOp'.op = "status_change"
    /\ transcripts' = transcripts /\ now' = now

\* the row of a known project carries a session that is not the one the
\* watcher has mapped to the project
Rotated(status) ==
    /\ isKnownRepository(repos, status.path)
    /\ status.session_id # NoSession /\ status.transcript_path # NoTranscript
    /\ status.path \in DOMAIN projectToSession
    /\ projectToSession[status.path] # status.session_id

\* C18: when the session of a known project has changed from s1 to s2,
\* then after the watcher has handled the change the watcher of s1 is closed
\* and removed, a watcher of s2 is registered if its transcript file
\* exists, and the project is mapped to s2.
C18_SessionRotation ==
    [][IsStatusChange =>
        \A i \in 1..Len(store) :
            Rotated(store[i]) =>
                /\ projectToSession[store[i].path] \notin DOMAIN transcriptWatchers'
                /\ transcripts[store[i].transcript_path].exists =>
                      /\ store[i].session_id \in DOMAIN transcriptWatchers'
                      /\ transcriptWatchers'[store[i].session_id] = store[i].transcript_path
                /\ store[i].path \in DOMAIN projectToSession'
                /\ projectToSession'[store[i].path] = store[i].session_id]_vars

\* the watcher has moved from the watched transcript of s1 to that of s2
C18_Witness ==
    /\ lastOp.op = "status_change"
    /\ PathSlash \in DOMAIN projectToSession /\ projectToSession[PathSlash] = "s2"
    /\ DOMAIN transcriptWatchers = {"s2"}
    /\ transcripts[RotateFile("s1")].exists
    /\ Len(store) = 1 /\ store[1].session_id = "s2"

(***************************************************************************)
(* Two handlings of a status change at once                                *)
(*                                                                         *)
(* Start launches watchLoop in a goroutine and then calls                  *)
(* handleAgentStatusChange itself; watchLoop calls it for every write      *)
(* event on the status file.  tw.mutex is held for the check of the old    *)
(* session with the update of the mapping, for the lookup of the session,  *)
(* for the store into the registry and for the removal of inactive         *)
(* sessions, and released between them.                                    *)
(***************************************************************************)

Handlers == {"start", "loop"}

Handler(pc, statuses, i, active, sessionID, transcriptPath) ==
    [pc |-> pc, statuses |-> statuses, i |-> i, active |-> active,
     sessionID |-> sessionID, transcriptPath |-> transcriptPath]

IdleHandler == Handler("idle", <<>>, 0, {}, NoSession, NoTranscript)

\* the end of the loop body: the next row, or the removal of the inactive
AfterRow(hd) ==
    IF hd.i < Len(hd.statuses)
    THEN [hd EXCEPT !.pc = "row", !.i = @ + 1]
    ELSE [hd EXCEPT !.pc = "cleanup"]

\* watchLoop receives a write event and calls handleAgentStatusChange
LoopReceives ==
    /\ handlers["loop"].pc = "idle" /\ statusEvent
    /\ statusEvent' = FALSE
    /\ handlers' = [handlers EXCEPT !["loop"].pc = "read"]
    /\ UNCHANGED <<store, now, transcripts, transcriptEvent, repos, knownRepos,
                   transcriptWatchers, projectToSession, lastOp>>
    /\ UNCHANGED <<queueVars, sup, statusFile, loaded, notified, hub, fileWatcher, writers,
                   openWatchers>>

\* updateKnownRepos and GetAgentStatus
HandlerReads(h) ==
    /\ handlers[h].pc = "read"
    /\ knownRepos' = repos
    /\ handlers' = [handlers EXCEPT ![h] =
          IF Len(store) = 0
          THEN Handler("cleanup", store, 0, {}, NoSession, NoTranscript)
          ELSE Handler("row", store, 1, {}, NoSession, NoTranscript)]
    /\ UNCHANGED <<store, now, transcripts, statusEvent, transcriptEvent, repos,
                   transcriptWatchers, projectToSession, lastOp>>
    /\ UNCHANGED <<queueVars, sup, statusFile, loaded, notified, hub, fileWatcher, writers,
                   openWatchers>>

\* the loop body up to the update of the mapping: the row's session (its
\* own or the discovered one), then under the lock the close of the
\* watcher of the project's old session
HandlerMapsRow(h) ==
    /\ handlers[h].pc = "row"
    /\ LET hd == handlers[h]
           status == hd.statuses[hd.i]
           discover == status.session_id = NoSession \/ status.transcript_path = NoTranscript
           found == FindMostRecentTranscript(transcripts, status.path)
           sessionID == IF discover THEN found.session ELSE status.session_id
           transcriptPath == IF discover THEN found ELSE status.transcript_path
           stale == status.path \in DOMAIN projectToSession
                    /\ projectToSession[status.path] # sessionID
           old == projectToSession[status.path]
       IN  IF ~isKnownRepository(knownRepos, status.path)
              \/ (discover /\ found = NoTranscript)
           THEN /\ handlers' = [handlers EXCEPT ![h] = AfterRow(hd)]
                /\ UNCHANGED <<transcriptWatchers, projectToSession, openWatchers>>
           ELSE /\ handlers' = [handlers EXCEPT ![h] =
                      [hd EXCEPT !.pc = "check", !.active = @ \cup {sessionID},
                                 !.sessionID = sessionID,
                                 !.transcriptPath = transcriptPath]]
                /\ projectToSession' = MapPut(projectToSession, status.path, sessionID)
                /\ IF stale /\ old \in DOMAIN transcriptWatchers
                   THEN /\ transcriptWatchers' = MapDel(transcriptWatchers, old)
                        /\ openWatchers' = [openWatchers EXCEPT ![old] = @ - 1]
                   ELSE UNCHANGED <<transcriptWatchers, openWatchers>>
    /\ UNCHANGED <<store, now, transcripts, statusEvent, transcriptEvent, repos,
                   knownRepos, lastOp>>
    /\ UNCHANGED <<queueVars, sup, statusFile, loaded, notified, hub, fileWatcher, writers>>

\* the lookup of the session in the registry, under the read lock
HandlerChecks(h) ==
    /\ handlers[h].pc = "check"
    /\ handlers' = [handlers EXCEPT ![h] =
          IF handlers[h].sessionID \in DOMAIN transcriptWatchers
          THEN AfterRow(handlers[h])
          ELSE [handlers[h] EXCEPT !.pc = "add"]]
    /\ UNCHANGED hookVars
    /\ UNCHANGED <<queueVars, sup, statusFile, loaded, notified, hub, fileWatcher, writers,
                   openWatchers>>

\* addTranscriptWatcher: a new fsnotify watcher on the file when it exists,
\* stored in the registry under the session id, and its goroutine
HandlerAdds(h) ==
    /\ handlers[h].pc = "add"
    /\ LET hd == handlers[h]
           exists == hd.transcriptPath \in DOMAIN transcripts
                     /\ transcripts[hd.transcriptPath].exists
       IN  /\ handlers' = [handlers EXCEPT ![h] = AfterRow(hd)]
           /\ IF exists
              THEN /\ transcriptWatchers' =
                          MapPut(transcriptWatchers, hd.sessionID, hd.transcriptPath)
                   /\ openWatchers' = [openWatchers EXCEPT ![hd.sessionID] = @ + 1]
              ELSE UNCHANGED <<transcriptWatchers, openWatchers>>
    /\ UNCHANGED <<store, now, transcripts, statusEvent, transcriptEvent, repos,
                   knownRepos, projectToSession, lastOp>>
    /\ UNCHANGED <<queueVars, sup, statusFile, loaded, notified, hub, fileWatcher, writers>>

\* the removal of the watchers of inactive sessions, each with one project
\* mapped to it, under the lock
HandlerCleansUp(h) ==
    /\ handlers[h].pc = "cleanup"
    /\ LET inactive == DOMAIN transcriptWatchers \ handlers[h].active
       IN  /\ transcriptWatchers' =
                  [sid \in DOMAIN transcriptWatchers \ inactive |-> transcriptWatchers[sid]]
           /\ openWatchers' = [sid \in DOMAIN openWatchers |->
                  IF sid \in inactive THEN openWatchers[sid] - 1 ELSE openWatchers[sid]]
           /\ \E drop \in SUBSET DOMAIN projectToSession :
                /\ \A p \in drop : projectToSession[p] \in inactive
                /\ \A sid \in inactive :
                      (\E p \in DOMAIN projectToSession : projectToSession[p] = sid)
                         => Cardinality({p \in drop : projectToSession[p] = sid}) = 1
                /\ projectToSession' =
                      [p \in DOMAIN projectToSession \ drop |-> projectToSession[p]]
    /\ handlers' = [handlers EXCEPT ![h].pc = "correct"]
    /\ UNCHANGED <<store, now, transcripts, statusEvent, transcriptEvent, repos,
                   knownRepos, lastOp>>
    /\ UNCHANGED <<queueVars, sup, statusFile, loaded, notified, hub, fileWatcher, writers>>

\* correctStatusFromTranscripts and its save, which raises a write event
HandlerCorrects(h) ==
    /\ handlers[h].pc = "correct"
    /\ LET corrected == Corrected(store, knownRepos, transcripts)
       IN  /\ store' = corrected
           /\ statusEvent' = (statusEvent \/ corrected # store)
    /\ handlers' = [handlers EXCEPT ![h] = IdleHandler]
    /\ lastOp' = Op("status_change", <<>>, "")
    /\ UNCHANGED <<now, transcripts, transcriptEvent, repos, knownRepos,
                   transcriptWatchers, projectToSession>>
    /\ UNCHANGED <<queueVars, sup, statusFile, loaded, notified, hub, fileWatcher, writers,
                   openWatchers>>

\* the dashboard starts over a table with a row of the project, whose
\* transcript holds a message; Start is about to call
\* handleAgentStatusChange and watchLoop is running
WatchRaceInit ==
    /\ store = <<AgentStatus(PathSlash, "running", 0, "s1", RotateFile("s1"))>>
    /\ now = 0
    /\ transcripts = [tp \in {RotateFile(session) : session \in RotateSessions} |->
                         FileOf(<<UserLine(0)>>)]
    /\ statusEvent = FALSE /\ transcriptEvent = {}
    /\ repos = Repos /\ knownRepos = Repos
    /\ transcriptWatchers = EmptyMap /\ projectToSession = EmptyMap
    /\ lastOp = Op("start", <<>>, "")
    /\ QueueIdle /\ SupIdle
    /\ statusFile = <<>> /\ loaded = <<>> /\ notified = <<>>
    /\ hub = <<>> /\ fileWatcher = <<>> /\ writers = <<>>
    /\ handlers = [h \in Handlers |-> IF h = "start"
                                      THEN [IdleHandler EXCEPT !.pc = "read"]
                                      ELSE IdleHandler]
    /\ openWatchers = [session \in RotateSessions |-> 0]

WatchRaceNext ==
    \/ \E session \in RotateSessions : Hook(PathSlash, SessionPayload(session))
    \/ LoopReceives
    \/ \E h \in Handlers : HandlerReads(h)
    \/ \E h \in Handlers : HandlerMapsRow(h)
    \/ \E h \in Handlers : HandlerChecks(h)
    \/ \E h \in Handlers : HandlerAdds(h)
    \/ \E h \in Handlers : HandlerCleansUp(h)
    \/ \E h \in Handlers : HandlerCorrects(h)

WatchRaceSpec == WatchRaceInit /\ [][WatchRaceNext]_vars

\* C19: at every moment at most one fsnotify watcher (with its goroutine)
\* is open per session id, also while two handlings of a status change run
\* at once.
C19_OneOpenWatcherPerSession ==
    \A session \in DOMAIN openWatchers : openWatchers[session] <= 1

(***************************************************************************)
(* The last message of a transcript                                        *)
(*                                                                         *)
(* A message is reported as the entry it was taken from (its role and its  *)
(* time); the display variant is the full text cut after 200 bytes, of     *)
(* the entry its own function selects.                                     *)
(***************************************************************************)

NoMessageFound == [role |-> "", ts |-> 0, content |-> ""]

MessageOf(l) == [role |-> l.role, ts |-> l.ts, content |-> l.content]

\* the newest entry of ls of the role whose text is not empty and, with
\* the filter, not system output
LastOfRole(ls, role, filter) ==
    LET hits == {i \in 1..Len(ls) :
                    /\ ls[i].role = role /\ HasMessage(ls[i])
                    /\ filter => ~IsSystemOutput(ls[i].content)}
    IN  IF hits = {} THEN NoMessageFound ELSE MessageOf(ls[MaxOf(hits)])

\* GetLastMessageFull: a forward scan of the whole file, which fails on a
\* line longer than the scanner's buffer; the last assistant message is
\* preferred to the last user message
GetLastMessageFull(trs, tp) ==
    IF tp \notin DOMAIN trs \/ ~trs[tp].exists
       \/ \E i \in 1..Len(trs[tp].lines) : trs[tp].lines[i].json = "toolong"
    THEN [err |-> TRUE, message |-> NoMessageFound]
    ELSE LET es == Entries(trs[tp].lines)
             lastAssistantMessage == LastOfRole(es, "assistant", TRUE)
             lastUserMessage == LastOfRole(es, "user", TRUE)
         IN  [err |-> FALSE,
              message |-> IF lastAssistantMessage # NoMessageFound
                          THEN lastAssistantMessage ELSE lastUserMessage]

\* GetLastMessageInfo, from which GetLastMessage cuts the display text: the
\* lines of the tail from the newest to the oldest, the first one that
\* parseLineForMessage accepts
GetLastMessageInfo(trs, tp) ==
    IF tp \notin DOMAIN trs \/ ~trs[tp].exists
    THEN [err |-> TRUE, message |-> NoMessageFound]
    ELSE LET ls == TailLines(trs[tp].lines)
             hits == {i \in 1..Len(ls) : IsMessageLine(ls[i])}
         IN  [err |-> FALSE,
              message |-> IF hits = {} THEN NoMessageFound ELSE MessageOf(ls[MaxOf(hits)])]

\* extractLastMessageFromTranscript of the hook: a forward scan that ends
\* at a line longer than the scanner's buffer, without the system-output
\* filter; both of its variants are cut from the one message it selects
extractLastMessageFromTranscript(trs, tp) ==
    IF tp \notin DOMAIN trs \/ ~trs[tp].exists THEN NoMessageFound
    ELSE LET es == Entries(trs[tp].lines)
             lastAssistantMessage == LastOfRole(es, "assistant", FALSE)
             lastUserMessage == LastOfRole(es, "user", FALSE)
         IN  IF lastAssistantMessage # NoMessageFound
             THEN lastAssistantMessage ELSE lastUserMessage

\* the dashboard (handleTranscriptChange) and the hook extract the last
\* message of transcript tp
ReadLastMessage(tp) ==
    /\ transcripts[tp].exists
    /\ lastOp' = [op |-> "last_message", path |-> tp.dir, event |-> "",
                  lines |-> transcripts[tp].lines,
                  display |-> GetLastMessageInfo(transcripts, tp),
                  full |-> GetLastMessageFull(transcripts, tp),
                  hook |-> extractLastMessageFromTranscript(transcripts, tp)]
    /\ UNCHANGED <<store, now, transcripts, statusEvent, transcriptEvent, repos,
                   knownRepos, transcriptWatchers, projectToSession>>
    /\ UNCHANGED <<queueVars, sup, diskVars>>

MaxParseLines == 3
MaxParseTicks == 2

ParseNext ==
    \/ \E line \in ConversationLines(now) : AppendLine(TheTranscript, line, MaxParseLines)
    \/ Advance(MaxParseTicks * TickSeconds)
    \/ ReadLastMessage(TheTranscript)

ParseSpec == StoreInit /\ [][ParseNext]_vars

\* the most recent qualifying assistant message of the lines when there is
\* one, otherwise the most recent qualifying user message
PreferredMessage(lines) ==
    LET Assistant(l) == IsMessageLine(l) /\ l.role = "assistant"
        User(l) == IsMessageLine(l) /\ l.role = "user"
        assistants == SelectSeq(lines, Assistant)
        users == SelectSeq(lines, User)
    IN  IF assistants # <<>> THEN MessageOf(assistants[Len(assistants)])
        ELSE IF users # <<>> THEN MessageOf(users[Len(users)])
        ELSE NoMessageFound

\* C20: the reported last message is the most recent qualifying assistant
\* message whenever the transcript has one, and otherwise the most recent
\* qualifying user message, in the full and in the display variant,
\* whatever the order of the entries.
C20_LastMessagePrefersAssistant ==
    lastOp.op = "last_message" =>
        /\ ~lastOp.full.err /\ lastOp.full.message = PreferredMessage(lastOp.lines)
        /\ ~lastOp.display.err /\ lastOp.display.message = PreferredMessage(lastOp.lines)
        /\ lastOp.hook = PreferredMessage(lastOp.lines)

(***************************************************************************)
(* The system-output filter                                                *)
(*                                                                         *)
(* The agent logs what the user pasted and what it answered; either can    *)
(* hold the output of a hook run ("Stop [...] completed successfully:"),   *)
(* in any case of letters.                                                 *)
(***************************************************************************)

\* a user or assistant message whose cleaned text holds a pattern of
\* IsSystemOutput, as written (text "sys") or in capitals (text "SYS")
HookOutputLine(role, text, ts) == Line("object", role, role, text, "", ts)

FilterLines(t) ==
    {UserLine(t), AssistantLine(t)} \cup
    {HookOutputLine(role, text, t) : role \in {"user", "assistant"}, text \in {"sys", "SYS"}}

MaxFilterLines == 2
MaxFilterTicks == 1

FilterNext ==
    \/ \E line \in FilterLines(now) : AppendLine(TheTranscript, line, MaxFilterLines)
    \/ Advance(MaxFilterTicks * TickSeconds)
    \/ ReadLastMessage(TheTranscript)

FilterSpec == StoreInit /\ [][FilterNext]_vars

\* C21: a message whose cleaned text contains a denylist pattern, in any
\* case of letters, is never selected as the last message by any of the
\* extractors: the parser's display and full variants (watcher path) and
\* the hook's extractor.
C21_SystemOutputNeverSelected ==
    lastOp.op = "last_message" =>
        /\ ~IsSystemOutput(lastOp.display.message.content)
        /\ ~IsSystemOutput(lastOp.full.message.content)
        /\ ~IsSystemOutput(lastOp.hook.content)

\* the watcher path alone
C21_WatcherPathFilters ==
    lastOp.op = "last_message" =>
        /\ ~IsSystemOutput(lastOp.display.message.content)
        /\ ~IsSystemOutput(lastOp.full.message.content)

(***************************************************************************)
(* A Stop hook and the watcher's correction pass                           *)
(*                                                                         *)
(* The agent has stopped writing: the transcripts stay as they are, the    *)
(* repository list stays as it is, hooks arrive and the watcher handles    *)
(* the writes to the status file.                                          *)
(***************************************************************************)

MaxStopTicks == 2

StopInit ==
    /\ store = <<>>
    /\ now = 0
    /\ \E file \in {NoFile} \cup {FileOf(<<line>>) : line \in ConversationLines(0)} :
          transcripts = [tp \in TranscriptFiles |->
                            IF tp = TheTranscript THEN file ELSE NoFile]
    /\ statusEvent = TRUE
    /\ transcriptEvent = {}
    /\ repos = Repos
    /\ knownRepos = Repos
    /\ transcriptWatchers = EmptyMap
    /\ projectToSession = EmptyMap
    /\ lastOp = Op("start", <<>>, "")
    /\ QueueIdle /\ SupIdle /\ DiskIdle

StopNext ==
    \/ \E workingDir \in Paths, payload \in EventPayloads : Hook(workingDir, payload)
    \/ HandleAgentStatusChange
    \/ Advance(MaxStopTicks * TickSeconds)

StopSpec == StopInit /\ [][StopNext]_vars

\* the last operation was a Stop hook that was not debounced, in a known
\* path: it has left the path's row idle
IdleAfterStop ==
    /\ lastOp.op = "hook" /\ lastOp.event = "Stop"
    /\ isKnownRepository(knownRepos, lastOp.path)
    /\ \A row \in RowsOf(store, lastOp.path) : row.status = "idle"

\* C22: after a Stop hook that was not debounced has set the status of a
\* known path to idle, the watcher's handling of that write to the store
\* leaves the status idle, while no hook, transcript write or change of the
\* repository list intervenes.
C22_IdleSurvivesStatusChange ==
    [][(IdleAfterStop /\ lastOp'.op = "status_change")
          => \A row \in RowsOf(store', lastOp.path) : row.status = "idle"]_vars

(***************************************************************************)
(* The hook process from its standard input to its exit code               *)
(*                                                                         *)
(* Standard input is empty, not JSON, a JSON value of another kind than    *)
(* an object (an array, a string, null), an object with a field of the     *)
(* wrong type, or an object HookData accepts.                              *)
(***************************************************************************)

StdinKinds == {"empty", "malformed", "array", "string", "null", "mistyped", "object"}

ZeroPayload ==
    [session_id |-> NoSession, transcript_path |-> NoTranscript, tool_name |-> "",
     tool_input |-> "absent", tool_output |-> "absent"]

Stdins ==
    [kind : StdinKinds \ {"object"}, payload : {ZeroPayload}] \cup
    [kind : {"object"}, payload : EventPayloads]

\* json.NewDecoder(os.Stdin).Decode(&hookData): an error at the end of
\* input, for a syntax error and for a value or field of a type the struct
\* cannot take; JSON null decodes into a struct without an error and
\* leaves it as it was, the zero HookData
DecodeStdin(stdin) ==
    CASE stdin.kind \in {"empty", "malformed", "array", "string", "mistyped"} ->
            [err |-> TRUE, hookData |-> HookData(ZeroPayload)]
      [] stdin.kind = "null" -> [err |-> FALSE, hookData |-> HookData(ZeroPayload)]
      [] OTHER -> [err |-> FALSE, hookData |-> HookData(stdin.payload)]

\* which of the hook's writes of the status file fails
SaveFailures == {"none", "first", "second"}

\* handleHookMode: [err, statuses, saved], the error it returns, the table
\* it computed and whether a write of the file was attempted.  The second
\* save is made when the payload names a transcript with a message, and
\* its failure is only printed.
handleHookMode(statuses, trs, workingDir, stdin, fails, t) ==
    LET decoded == DecodeStdin(stdin)
        hookData == decoded.hookData
        event == EventOf(hookData, trs)
        status == HookStatus(statuses, workingDir, event, t)
        agentStatus == AgentStatus(workingDir, status, t,
                                   hookData.SessionID, hookData.TranscriptPath)
        second == /\ hookData.SessionID # NoSession
                  /\ hookData.TranscriptPath # NoTranscript
                  /\ extractLastMessageFromTranscript(trs, hookData.TranscriptPath)
                        # NoMessageFound
    IN  IF decoded.err
        THEN [err |-> TRUE, statuses |-> statuses, saved |-> "none", event |-> ""]
        ELSE IF fails = "first"
        THEN [err |-> TRUE, statuses |-> Upsert(statuses, agentStatus),
              saved |-> "failed", event |-> event]
        ELSE [err |-> FALSE, statuses |-> Upsert(statuses, agentStatus),
              saved |-> IF fails = "second" /\ second THEN "failed" ELSE "done",
              event |-> event]

\* main in hook mode: os.Exit(1) when handleHookMode returns an error,
\* os.Exit(0) otherwise
ExitCode(err) == IF err THEN 1 ELSE 0

\* one run of the hook process in workingDir.  An os.WriteFile that fails
\* leaves the file as it was or, having truncated it, without rows.
RunHook(workingDir, stdin, fails) ==
    LET r == handleHookMode(store, transcripts, workingDir, stdin, fails, now)
    IN  /\ \E onDisk \in (CASE r.saved = "none" -> {store}
                             [] r.saved = "done" -> {r.statuses}
                             [] OTHER -> {store, <<>>}) :
              /\ store' = onDisk
              /\ statusEvent' = (statusEvent \/ r.saved = "done" \/ onDisk # store)
        /\ lastOp' = [op |-> "hook_exit", path |-> workingDir, event |-> r.event,
                      stdin |-> stdin.kind, payload |-> stdin.payload,
                      fails |-> fails, saved |-> r.saved,
                      before |-> store, code |-> ExitCode(r.err)]
        /\ UNCHANGED <<now, transcripts, transcriptEvent, repos, knownRepos,
                       transcriptWatchers, projectToSession>>
        /\ UNCHANGED <<queueVars, sup, diskVars>>

MaxExitTicks == 1
MaxExitLines == 1

HookExitNext ==
    \/ \E stdin \in Stdins, fails \in SaveFailures : RunHook(PathSlash, stdin, fails)
    \/ Advance(MaxExitTicks * TickSeconds)
    \/ \E line \in ConversationLines(now) : AppendLine(TheTranscript, line, MaxExitLines)

HookExitSpec == StoreInit /\ [][HookExitNext]_vars

\* C23: a hook whose standard input is not a decodable JSON object exits
\* with a non-zero code and leaves every row of the store as it was; a hook
\* whose save of the updated table fails exits with a non-zero code too.
C23_BadStdinOrFailedSaveExitsNonZero ==
    lastOp.op = "hook_exit" =>
        /\ lastOp.stdin # "object" => (lastOp.code # 0 /\ store = lastOp.before)
        /\ lastOp.fails = "first" => lastOp.code # 0

\* the same for input that is not JSON or is a JSON value other than null
C23_MalformedStdinExitsNonZero ==
    lastOp.op = "hook_exit" =>
        /\ lastOp.stdin \notin {"object", "null"}
              => (lastOp.code # 0 /\ store = lastOp.before)
        /\ lastOp.fails = "first" => lastOp.code # 0

(***************************************************************************)
(* The upsert of a hook                                                    *)
(*                                                                         *)
(* PreToolUse hooks of two directories whose payloads carry a session id,  *)
(* a transcript path, both or neither.                                     *)
(***************************************************************************)

UpsertPayloads ==
    [session_id : {NoSession} \cup RotateSessions,
     transcript_path : {NoTranscript} \cup {RotateFile(session) : session \in RotateSessions},
     tool_name : {"Bash"},
     tool_input : {"value"},
     tool_output : {"absent"}]

MaxUpsertTicks == 1

UpsertNext ==
    \/ \E workingDir \in Paths, payload \in UpsertPayloads :
          RunHook(workingDir, [kind |-> "object", payload |-> payload], "none")
    \/ Advance(MaxUpsertTicks * TickSeconds)

UpsertSpec == StoreInit /\ [][UpsertNext]_vars

\* the last operation was a hook in a directory that had a row
UpsertedExistingRow ==
    /\ lastOp.op = "hook_exit" /\ lastOp.code = 0
    /\ FirstIndex(lastOp.before, lastOp.path) # 0

\* C24: a hook upsert for a path that has a row keeps the row's stored
\* session_id when the payload's is empty and the stored transcript_path
\* when the payload's is empty, each on its own, and writes the rows of
\* all other paths back as they were.
C24_UpsertKeepsSessionFields ==
    UpsertedExistingRow =>
        LET before == lastOp.before
            i == FirstIndex(before, lastOp.path)
        IN  /\ Len(store) = Len(before)
            /\ store[i].path = lastOp.path
            /\ lastOp.payload.session_id = NoSession
                  => store[i].session_id = before[i].session_id
            /\ lastOp.payload.transcript_path = NoTranscript
                  => store[i].transcript_path = before[i].transcript_path
            /\ \A j \in 1..Len(before) :
                  before[j].path # lastOp.path => store[j] = before[j]

\* a hook with a transcript path and no session id has updated a row that
\* had a session id and another transcript path, next to a row of the
\* other directory
C24_Witness ==
    /\ UpsertedExistingRow
    /\ Len(store) = 2
    /\ LET i == FirstIndex(lastOp.before, lastOp.path)
       IN  /\ lastOp.payload.session_id = NoSession
           /\ lastOp.payload.transcript_path = RotateFile("s2")
           /\ lastOp.before[i].session_id = "s1"
           /\ lastOp.before[i].transcript_path = RotateFile("s1")
           /\ store[i].session_id = "s1"
           /\ store[i].transcript_path = RotateFile("s2")

(***************************************************************************)
(* The shutdown protocol of the supervisor                                 *)
(***************************************************************************)

\* main has received the child's exit from processExit
ObservedExit == sup.via = "exit" \/ sup.main \in {"done", "exited"}

\* main has made its call of stdinPipe.Close, after the grace period
MainClosedPipe == sup.main \in {"wait_exit", "done", "exited"}

\* the steps of main in their order: the flag is cleared before the stop
\* channel is closed, the channel is closed before the grace period, and
\* main closes the pipe after it
MainShutdownOrder ==
    /\ sup.stopTicker => ~sup.processRunning
    /\ sup.main = "grace" => sup.stopTicker
    /\ MainClosedPipe => (sup.stopTicker /\ sup.pipe = "closed")

\* C25: in every execution in which the supervisor observes the child's
\* exit, the alive flag is set to false, then the stop channel is closed,
\* then the grace period elapses, then the injection pipe is closed; the
\* pipe is never closed while the alive flag is still true.
C25_ShutdownOrder ==
    ObservedExit => (MainShutdownOrder /\ (sup.pipe = "closed" => ~sup.processRunning))

\* the order of main's own steps
C25_MainStepsInOrder ==
    ObservedExit => (MainShutdownOrder /\ (MainClosedPipe => ~sup.processRunning))

\* C26: once the supervisor has closed the injection pipe it makes no
\* further write of an injection on it: an injection that was in flight
\* when the child's exit was observed has made all its writes before the
\* close, whatever the length of the message.
C26_NoInjectionWriteAfterClose ==
    [][(MainClosedPipe /\ sup.via = "exit") => MessageWrites' = MessageWrites]_vars

\* an injection starts only while the flag is set: the check is what is
\* guarded, not the writes that follow it
C26_NoInjectionStartsAfterFlagCleared ==
    [][(~sup.processRunning /\ sup.ticker = "check") => sup'.ticker # "write"]_vars

\* C27: while the child is running the alive flag is true and the polling
\* loop has not been told to stop, in either mode and also after the
\* supervisor's own standard input has ended; the flag is false only after
\* the child has exited.
C27_AliveWhileChildRuns ==
    sup.child = "running" => (sup.processRunning /\ ~sup.stopTicker)

\* the same in interactive mode, where the end of stdin is not waited for
C27_AliveWhileChildRunsInteractive ==
    (sup.interactive /\ sup.child = "running") => (sup.processRunning /\ ~sup.stopTicker)

\* the messages for which a Write call was made
WrittenIds == {sup.childIn[i].id : i \in {j \in DOMAIN sup.childIn :
                  IsMessageWrite(sup.childIn[j])}}

\* C28: a message the polling loop pops while the alive flag is false is
\* dropped: no Write call is ever made for it, it is not in the queue
\* again, it is not the message in hand and it is never among the injected
\* ones.
C28_DiscardedMessageIsDropped ==
    \A id \in sup.discarded :
        /\ id \notin WrittenIds
        /\ id \notin QueuedIds
        /\ id \notin Range(sup.injected)
        /\ sup.message.id # id

\* a message enqueued after the flag was cleared has been popped and
\* dropped, and the polling loop has gone on
C28_Witness ==
    /\ sup.discarded \cap sup.afterCleared # {}
    /\ sup.ticker \in {"select", "returned"}
    /\ QueuedIds = {}

(***************************************************************************)
(* A transcript write for a waiting row                                    *)
(*                                                                         *)
(* The clock is fine enough that no two events bear the same time: a hook, *)
(* a line of the transcript and the handling of a write each happen at a   *)
(* time no row and no line carries yet.                                    *)
(***************************************************************************)

\* no row was stamped and no line was written at the current time
Fresh ==
    /\ \A i \in 1..Len(store) : store[i].last_activity # now
    /\ \A tp \in DOMAIN transcripts :
          \A i \in 1..Len(transcripts[tp].lines) : transcripts[tp].lines[i].ts # now

MaxWaitingTicks == 3
MaxWaitingLines == 2

WaitingNext ==
    \/ Fresh /\ \E payload \in EventPayloads : Hook(PathSlash, payload)
    \/ HandleAgentStatusChange
    \/ Fresh /\ \E tp \in TranscriptFiles : HandleTranscriptChange(tp)
    \/ Advance(MaxWaitingTicks * TickSeconds)
    \/ Fresh /\ \E line \in ConversationLines(now) :
                  AppendLine(TheTranscript, line, MaxWaitingLines)

WaitingSpec == StoreInit /\ [][WaitingNext]_vars

\* a step is the handling of a write to transcript tp: the pending event
\* of tp is consumed
IsTranscriptChange(tp) ==
    /\ lastOp'.op = "transcript_change"
    /\ tp \in transcriptEvent /\ tp \notin transcriptEvent'

\* the row handleTranscriptChange updates for tp, 0 if none
RowOfTranscript(tp) == FirstIndex(store, extractProjectPathFromTranscript(store, tp))

\* the newest qualifying message of a transcript
NewestQualifying(file) ==
    LET Qualifies(l) == IsMessageLine(l)
        messages == SelectSeq(file.lines, Qualifies)
    IN  IF messages = <<>> THEN NoMessageFound ELSE MessageOf(messages[Len(messages)])

\* C29: when the watcher handles a transcript write for a waiting row and
\* the last message qualifies, the status becomes running if the newest
\* qualifying message is a user message, or an assistant message whose
\* time is after the last_activity stored before the event; otherwise it
\* stays waiting.
C29_WaitingToRunning ==
    [][\A tp \in TranscriptFiles :
          LET i == RowOfTranscript(tp)
              newest == NewestQualifying(transcripts[tp])
          IN  (/\ IsTranscriptChange(tp) /\ i # 0
               /\ store[i].status = "waiting"
               /\ newest # NoMessageFound)
              => store'[i].status =
                    IF newest.role = "user" \/ newest.ts > store[i].last_activity
                    THEN "running" ELSE "waiting"]_vars

\* what the handler compares with: the time of the handling
C29_ComparedWithTimeOfHandling ==
    [][\A tp \in TranscriptFiles :
          LET i == RowOfTranscript(tp)
              newest == NewestQualifying(transcripts[tp])
          IN  (/\ IsTranscriptChange(tp) /\ i # 0
               /\ store[i].status = "waiting"
               /\ newest # NoMessageFound)
              => store'[i].status =
                    IF newest.role = "user" \/ newest.ts >= now
                    THEN "running" ELSE "waiting"]_vars

(***************************************************************************)
(* A transcript write for a row of any status                              *)
(*                                                                         *)
(* agent-status.json has just been written with a row of the project, of   *)
(* any status the schema names; the project's transcript is being watched, *)
(* and the agent writes lines of every kind that fits the scanner.         *)
(***************************************************************************)

WrittenLines(t) ==
    (AllLines(t) \ {TooLongLine(t)}) \cup {HookOutputLine("user", "sys", t)}

MaxWrittenLines == 2
MaxWrittenTicks == 1

TranscriptWriteInit ==
    /\ \E status \in Statuses :
          store = <<AgentStatus(PathSlash, status, 0, "s1", TheTranscript)>>
    /\ now = 0
    /\ transcripts = [tp \in TranscriptFiles |->
                         IF tp = TheTranscript THEN FileOf(<<>>) ELSE NoFile]
    /\ statusEvent = TRUE
    /\ transcriptEvent = {}
    /\ repos = Repos
    /\ knownRepos = Repos
    /\ transcriptWatchers = MapPut(EmptyMap, "s1", TheTranscript)
    /\ projectToSession = MapPut(EmptyMap, PathSlash, "s1")
    /\ lastOp = Op("start", <<>>, "")
    /\ QueueIdle /\ SupIdle /\ DiskIdle

TranscriptWriteNext ==
    \/ \E line \in WrittenLines(now) : AppendLine(TheTranscript, line, MaxWrittenLines)
    \/ \E tp \in TranscriptFiles : HandleTranscriptChange(tp)
    \/ HandleAgentStatusChange
    \/ Advance(MaxWrittenTicks * TickSeconds)

TranscriptWriteSpec == TranscriptWriteInit /\ [][TranscriptWriteNext]_vars

\* C30: the handling of a transcript write changes a status to running or
\* not at all: a row that is idle or unknown becomes running exactly when
\* the transcript has a last message that is not empty and not system
\* output, and a row that is running, paused or error keeps its status
\* whatever the transcript contains.
C30_OnlyChangeIsToRunning ==
    [][\A tp \in TranscriptFiles :
          LET i == RowOfTranscript(tp)
              newest == NewestQualifying(transcripts[tp])
          IN  (IsTranscriptChange(tp) /\ i # 0) =>
                 /\ store'[i].status \in {store[i].status, "running"}
                 /\ store[i].status \in {"idle", "unknown"}
                       => (store'[i].status = "running" <=> newest # NoMessageFound)
                 /\ store[i].status \in {"running", "paused", "error"}
                       => store'[i].status = store[i].status]_vars

\* the handler has stamped a paused row whose transcript ends with a
\* conversational message, and has left it paused
C30_Witness ==
    /\ lastOp.op = "transcript_change"
    /\ now > 0
    /\ store[1].status = "paused" /\ store[1].last_activity = now
    /\ NewestQualifying(transcripts[TheTranscript]) # NoMessageFound

(***************************************************************************)
(* The correction pass                                                     *)
(*                                                                         *)
(* The status file holds three rows that no correction has touched yet:    *)
(* of the monitored repository, of a directory under it that has no        *)
(* transcript, and of a directory outside it whose project directory name  *)
(* is that of the repository.                                              *)
(***************************************************************************)

PathChild == PathSlash \o <<"/", "c">>

\* the statuses a correction pass never writes
ParkedStatuses == {"idle", "unknown", "paused", "error"}

MaxCorrectLines == 2

CorrectInit ==
    /\ \E s1 \in ParkedStatuses, s2 \in ParkedStatuses, s3 \in ParkedStatuses :
          store = <<AgentStatus(PathSlash, s1, 0, NoSession, NoTranscript),
                    AgentStatus(PathChild, s2, 0, NoSession, NoTranscript),
                    AgentStatus(PathDash, s3, 0, NoSession, NoTranscript)>>
    /\ now = 0
    /\ transcripts = [tp \in TranscriptFiles |-> NoFile]
    /\ statusEvent = TRUE
    /\ transcriptEvent = {}
    /\ repos = Repos
    /\ knownRepos = Repos
    /\ transcriptWatchers = EmptyMap
    /\ projectToSession = EmptyMap
    /\ lastOp = Op("start", <<>>, "")
    /\ QueueIdle /\ SupIdle /\ DiskIdle

\* the agent writes, and every write of the status file is handled; a
\* touch of the file from outside raises an event without changing a row
StatusFileTouched ==
    /\ ~statusEvent
    /\ statusEvent' = TRUE
    /\ lastOp' = Op("touch", <<>>, "")
    /\ UNCHANGED <<store, now, transcripts, transcriptEvent, repos, knownRepos,
                   transcriptWatchers, projectToSession>>
    /\ UNCHANGED <<queueVars, sup, diskVars>>

CorrectNext ==
    \/ \E line \in AllLines(now) : AppendLine(TheTranscript, line, MaxCorrectLines)
    \/ HandleAgentStatusChange
    \/ StatusFileTouched

CorrectSpec == CorrectInit /\ [][CorrectNext]_vars

\* a step is a handling of a status-file change, with its correction pass
IsCorrection ==
    lastOp'.op = "status_change" /\ statusEvent /\ transcripts' = transcripts

\* the status the most recent activity of a transcript stands for: the
\* newest readable entry with a text decides
ExpectedStatus(file) ==
    LET Texted(l) == l.json = "object" /\ ActivityText(l) # ""
        texts == SelectSeq(TailLines(file.lines), Texted)
    IN  IF texts = <<>> THEN "waiting"
        ELSE IF IsSystemOutput(ActivityText(texts[Len(texts)])) THEN "waiting"
        ELSE "running"

\* the transcripts found for a path: those of its project directory
TranscriptsOf(path) ==
    {tp \in DOMAIN transcripts : tp.dir = ProjectDirName(path) /\ transcripts[tp].exists}

\* C31: after a correction pass every known path for which a transcript
\* is found is waiting when the transcript's most recent activity is
\* system output or cannot be read and running when it is conversational,
\* whatever its status was; rows of paths without a transcript keep their
\* status.
C31_CorrectionRederivesStatus ==
    [][IsCorrection =>
          /\ Len(store') = Len(store)
          /\ \A i \in 1..Len(store) :
                IF TranscriptsOf(store[i].path) = {}
                THEN store'[i] = store[i]
                ELSE isKnownRepository(repos, store[i].path)
                        => \E tp \in TranscriptsOf(store[i].path) :
                              store'[i].status = ExpectedStatus(transcripts[tp])]_vars

\* a pass has made the parked row of the repository waiting over a
\* transcript that ends in system output, and has left the parked row of
\* the directory without transcript as it was
C31_Witness ==
    /\ lastOp.op = "status_change"
    /\ store[1].status = "waiting"
    /\ store[2].status \in {"paused", "error"}
    /\ Len(transcripts[TheTranscript].lines) = 2
    /\ transcripts[TheTranscript].lines[2] = SystemLine(0)

(***************************************************************************)
(* Rows of paths that are not known repositories                           *)
(***************************************************************************)

MaxKnownLines == 1

\* the display cache of the manager (lastMessages): path -> text, "" for a
\* path without an entry
MessageCaches == [Paths -> {"", "old"}]

\* the cache after the loop of correctStatusFromTranscripts
CorrectedMessages(cache, statuses, known, trs) ==
    [path \in DOMAIN cache |->
        LET tp == FindMostRecentTranscript(trs, path)
            last == GetLastMessage(trs, tp)
        IN  IF /\ \E i \in 1..Len(statuses) : statuses[i].path = path
               /\ isKnownRepository(known, path)
               /\ tp # NoTranscript
               /\ ~last.err /\ last.msg # ""
            THEN last.msg ELSE cache[path]]

\* handleAgentStatusChange with the manager's cache at hand, remembering
\* the sessions that had a watcher
HandleAgentStatusChangeCached(cache) ==
    /\ StatusChangeHandled
    /\ lastOp' = [op |-> "status_change", path |-> <<>>, event |-> "",
                  cache |-> cache,
                  cached |-> CorrectedMessages(cache, store, repos, transcripts),
                  watched |-> DOMAIN transcriptWatchers]

\* the set of repositories of the configuration changes
RepositoriesChange(new) ==
    /\ repos # new
    /\ repos' = new
    /\ lastOp' = Op("repositories", <<>>, "")
    /\ UNCHANGED <<store, now, transcripts, statusEvent, transcriptEvent, knownRepos,
                   transcriptWatchers, projectToSession>>
    /\ UNCHANGED <<queueVars, sup, diskVars>>

\* two rows whose paths share a project directory: the first with a
\* session of its own, the second with or without one
KnownInit ==
    /\ \E s1 \in {"idle", "running"}, s2 \in {"idle", "running"}, own \in BOOLEAN :
          store = <<AgentStatus(PathDash, s1, 0, "s2", RotateFile("s2")),
                    AgentStatus(PathSlash, s2, 0,
                                IF own THEN "s1" ELSE NoSession,
                                IF own THEN RotateFile("s1") ELSE NoTranscript)>>
    /\ now = 0
    /\ transcripts = [tp \in {RotateFile(session) : session \in RotateSessions} |-> NoFile]
    /\ statusEvent = TRUE
    /\ transcriptEvent = {}
    /\ repos = Paths
    /\ knownRepos = Paths
    /\ transcriptWatchers = EmptyMap
    /\ projectToSession = EmptyMap
    /\ lastOp = Op("start", <<>>, "")
    /\ QueueIdle /\ SupIdle /\ DiskIdle

KnownNext ==
    \/ \E session \in RotateSessions, line \in AllLines(now) :
          AppendLine(RotateFile(session), line, MaxKnownLines)
    \/ \E new \in SUBSET Paths : RepositoriesChange(new)
    \/ \E cache \in MessageCaches : HandleAgentStatusChangeCached(cache)
    \/ StatusFileTouched

KnownSpec == KnownInit /\ [][KnownNext]_vars

\* the session handleAgentStatusChange resolves for a row, NoSession when
\* it finds none
ResolvedSession(status) ==
    IF status.session_id = NoSession \/ status.transcript_path = NoTranscript
    THEN FindMostRecentTranscript(transcripts, status.path).session
    ELSE status.session_id

\* some row of a known path resolves to the session
WatchedForKnownRow(session) ==
    \E i \in 1..Len(store) :
        /\ isKnownRepository(repos, store[i].path)
        /\ ResolvedSession(store[i]) = session

\* C32: a handling of a Status Store change leaves every row of a path
\* that is neither a known repository nor under one as it was, with its
\* cached last message, and maps no watcher to the path; after the
\* handling every registered watcher belongs to the session of a row of a
\* known path, so the watcher of a path that stopped being known is gone.
C32_UnknownRowsAreIgnored ==
    [][IsCorrection =>
          /\ \A i \in 1..Len(store) :
                ~isKnownRepository(repos, store[i].path) =>
                   /\ store'[i] = store[i]
                   /\ lastOp'.cached[store[i].path] = lastOp'.cache[store[i].path]
                   /\ store[i].path \notin DOMAIN projectToSession
                         => store[i].path \notin DOMAIN projectToSession'
                   /\ ~WatchedForKnownRow(store[i].session_id)
                         => store[i].session_id \notin DOMAIN transcriptWatchers'
          /\ \A session \in DOMAIN transcriptWatchers' : WatchedForKnownRow(session)]_vars

\* the first row's path has stopped being known; the handling has closed
\* the watcher of its session, kept the watcher of the other row's, and
\* left the row idle and its cache entry as it was over a transcript that
\* ends in a message
C32_Witness ==
    /\ lastOp.op = "status_change"
    /\ knownRepos = {PathSlash}
    /\ "s2" \in lastOp.watched
    /\ DOMAIN transcriptWatchers = {"s1"}
    /\ store[1].status = "idle"
    /\ GetLastMessage(transcripts, RotateFile("s2")).msg # ""
    /\ lastOp.cache[PathDash] = "old"
    /\ lastOp.cached[PathDash] = "old"

(***************************************************************************)
(* Stop of the Transcript Watcher                                          *)
(*                                                                         *)
(* Stop closes stopCh and the status-file watcher and then, under          *)
(* tw.mutex, closes and deletes every registered watcher and replaces the  *)
(* mapping.  It does not wait for watchLoop: a handleAgentStatusChange     *)
(* that watchLoop (or Start) is in goes on, taking the lock where it does. *)
(***************************************************************************)

Stopper == "stop"

StopRaceInit ==
    /\ store = <<AgentStatus(PathSlash, "running", 0, "s1", RotateFile("s1"))>>
    /\ now = 0
    /\ transcripts = [tp \in {RotateFile(session) : session \in RotateSessions} |->
                         FileOf(<<UserLine(0)>>)]
    /\ statusEvent = FALSE /\ transcriptEvent = {}
    /\ repos = Repos /\ knownRepos = Repos
    /\ transcriptWatchers = EmptyMap /\ projectToSession = EmptyMap
    /\ lastOp = Op("start", <<>>, "")
    /\ QueueIdle /\ SupIdle
    /\ statusFile = <<>> /\ loaded = <<>> /\ notified = <<>>
    /\ hub = <<>> /\ fileWatcher = <<>> /\ writers = <<>>
    /\ handlers = [h \in Handlers \cup {Stopper} |->
                      IF h = "start" THEN [IdleHandler EXCEPT !.pc = "read"]
                      ELSE IF h = Stopper THEN [IdleHandler EXCEPT !.pc = "running"]
                      ELSE IdleHandler]
    /\ openWatchers = [session \in RotateSessions |-> 0]

\* Stop, from its call to its return, called once Start has returned
Stop ==
    /\ handlers[Stopper].pc = "running"
    /\ handlers["start"].pc = "idle"
    /\ handlers' = [handlers EXCEPT ![Stopper].pc = "stopped"]
    /\ openWatchers' = [sid \in DOMAIN openWatchers |->
           IF sid \in DOMAIN transcriptWatchers
           THEN openWatchers[sid] - 1 ELSE openWatchers[sid]]
    /\ transcriptWatchers' = EmptyMap
    /\ projectToSession' = EmptyMap
    /\ lastOp' = Op("stop", <<>>, "")
    /\ UNCHANGED <<store, now, transcripts, statusEvent, transcriptEvent, repos,
                   knownRepos>>
    /\ UNCHANGED <<queueVars, sup, statusFile, loaded, notified, hub, fileWatcher, writers>>

\* watchLoop takes a write event as long as the status-file watcher is
\* open
LoopReceivesUntilStop ==
    /\ handlers[Stopper].pc = "running"
    /\ LoopReceives

StopRaceNext ==
    \/ \E session \in RotateSessions : Hook(PathSlash, SessionPayload(session))
    \/ LoopReceivesUntilStop
    \/ \E h \in Handlers : HandlerReads(h)
    \/ \E h \in Handlers : HandlerMapsRow(h)
    \/ \E h \in Handlers : HandlerChecks(h)
    \/ \E h \in Handlers : HandlerAdds(h)
    \/ \E h \in Handlers : HandlerCleansUp(h)
    \/ \E h \in Handlers : HandlerCorrects(h)
    \/ Stop

StopRaceSpec == StopRaceInit /\ [][StopRaceNext]_vars

\* C33: once Stop has returned the registry of watchers and the mapping
\* of projects to sessions are empty and no transcript watcher is open,
\* also when a handling of a Status Store change runs alongside Stop.
C33_NothingLeftAfterStop ==
    handlers[Stopper].pc = "stopped" =>
        /\ transcriptWatchers = EmptyMap
        /\ projectToSession = EmptyMap
        /\ \A session \in DOMAIN openWatchers : openWatchers[session] = 0

\* with handlings that ran one after the other and had returned when Stop
\* was called, Stop leaves nothing behind
C33_NothingLeftAfterQuietStop ==
    (/\ handlers[Stopper].pc = "stopped"
     /\ lastOp.op = "stop"
     /\ \A h \in Handlers : handlers[h].pc = "idle") =>
        /\ transcriptWatchers = EmptyMap
        /\ projectToSession = EmptyMap

(***************************************************************************)
(* Hooks that follow each other inside the debounce window                 *)
(***************************************************************************)

MaxDebounceTicks == 5
MaxDebounceLines == 2

\* a hook has just written the row of the project, running or waiting
DebounceInit ==
    /\ \E status \in {"running", "waiting"} :
          store = <<AgentStatus(PathSlash, status, 0, "s1", TheTranscript)>>
    /\ now = 0
    /\ transcripts = [tp \in TranscriptFiles |-> NoFile]
    /\ statusEvent = TRUE
    /\ transcriptEvent = {}
    /\ repos = Repos
    /\ knownRepos = Repos
    /\ transcriptWatchers = EmptyMap
    /\ projectToSession = EmptyMap
    /\ lastOp = Op("hook", PathSlash, "PreToolUse")
    /\ QueueIdle /\ SupIdle /\ DiskIdle

\* one tick of the clock passes after a hook: the next hook comes less
\* than the debounce window after it
WaitAfterHook ==
    /\ lastOp.op = "hook"
    /\ now + TickSeconds <= MaxDebounceTicks * TickSeconds
    /\ now' = now + TickSeconds
    /\ lastOp' = Op("wait", <<>>, "")
    /\ UNCHANGED <<store, transcripts, statusEvent, transcriptEvent, repos, knownRepos,
                   transcriptWatchers, projectToSession>>
    /\ UNCHANGED <<queueVars, sup, diskVars>>

DebounceNext ==
    \/ \E payload \in EventPayloads : Hook(PathSlash, payload)
    \/ WaitAfterHook
    \/ HandleAgentStatusChange
    \/ \E tp \in TranscriptFiles : HandleTranscriptChange(tp)
    \/ \E line \in ConversationLines(now) : AppendLine(TheTranscript, line, MaxDebounceLines)

DebounceSpec == DebounceInit /\ [][DebounceNext]_vars

\* every row is running or waiting
NeverIdle == \A i \in 1..Len(store) : store[i].status \in {"running", "waiting"}

\* a hook stamps the row of its path with the current time, and a Stop
\* for a running or waiting row leaves the row's status as it was
HookSlidesWindow ==
    \A path \in Paths :
        IsHook(path) =>
           LET i == FirstIndex(store, path)
           IN  /\ store'[FirstIndex(store', path)].last_activity = now
               /\ (/\ lastOp'.event = "Stop" /\ i # 0
                   /\ store[i].status \in {"running", "waiting"})
                     => store'[i].status = store[i].status

\* C34: every hook sets the last_activity of its row to the current time,
\* a discarded Stop included; with hooks that each come less than 10
\* seconds after the previous one, no Stop makes a running or waiting row
\* idle, however long the hooks go on.
C34_DebounceWindowSlides == []NeverIdle /\ [][HookSlidesWindow]_vars

\* a Stop was discarded two windows after the row was written first, and
\* has stamped the row
C34_Witness ==
    /\ lastOp.op = "hook" /\ lastOp.event = "Stop"
    /\ now >= 2 * DebounceWindow
    /\ store[1].status = "running"
    /\ store[1].last_activity = now

(***************************************************************************)
(* The watcher left to itself                                              *)
(*                                                                         *)
(* No hook runs, the agent writes nothing and the repositories stay as     *)
(* they are; the write events raised so far are pending.  watchLoop and    *)
(* the goroutine of each transcript watcher block in a select and take     *)
(* every event that is delivered.                                          *)
(***************************************************************************)

MaxQuiesceTicks == 2

\* the transcripts the agent can have written
WrittenFiles ==
    {NoFile} \cup {FileOf(<<l1>>) : l1 \in AllLines(0)}
             \cup {FileOf(<<l1, l2>>) : l1 \in {UserLine(0), AssistantLine(0)},
                                        l2 \in ConversationLines(0)}

QuiesceInit ==
    /\ \E status \in Statuses, other \in {"error"} :
          store = <<AgentStatus(PathSlash, status, 0, "s1", TheTranscript),
                    AgentStatus(PathDash, other, 0, NoSession, NoTranscript)>>
    /\ now = TickSeconds
    /\ \E file \in WrittenFiles : transcripts = [tp \in TranscriptFiles |-> file]
    /\ statusEvent \in BOOLEAN
    /\ transcriptWatchers \in {EmptyMap, MapPut(EmptyMap, "s1", TheTranscript)}
    /\ transcriptEvent \in SUBSET Watched(transcriptWatchers)
    /\ projectToSession = [path \in {PathSlash : x \in DOMAIN transcriptWatchers} |-> "s1"]
    /\ repos = Repos
    /\ knownRepos = Repos
    /\ lastOp = Op("start", <<>>, "")
    /\ QueueIdle /\ SupIdle /\ DiskIdle

QuiesceNext ==
    \/ HandleAgentStatusChange
    \/ \E tp \in TranscriptFiles : HandleTranscriptChange(tp)
    \/ Advance(MaxQuiesceTicks * TickSeconds)

QuiesceSpec ==
    /\ QuiesceInit /\ [][QuiesceNext]_vars
    /\ WF_vars(HandleAgentStatusChange)
    /\ WF_vars(\E tp \in TranscriptFiles : HandleTranscriptChange(tp))

\* no write event is pending
Quiet == ~statusEvent /\ transcriptEvent = {}

\* C35: left to itself the watcher comes to rest: from some moment on no
\* write event of the status file or of a transcript is pending and the
\* table does not change any more.
C35_WatcherQuiesces == <>[]Quiet /\ <>[][store' = store]_vars

\* the watcher is at rest after a transcript handling stamped the row and
\* a correction pass made it waiting
C35_Witness ==
    /\ Quiet
    /\ lastOp.op = "status_change"
    /\ store[1].last_activity = now
    /\ store[1].status = "waiting"
    /\ GetLastMessage(transcripts, TheTranscript).msg # ""

(***************************************************************************)
(* The two cached variants of the last message                             *)
(***************************************************************************)

\* C36: over a transcript without tool-permission entries the display
\* variant and the full variant are taken from the same message (the
\* display text being the full text, cut after 200 characters when it is
\* longer), for every order of user and assistant entries.
C36_DisplayIsCutOfFull ==
    (lastOp.op = "last_message" /\ ~lastOp.full.err /\ ~lastOp.display.err) =>
        lastOp.display.message = lastOp.full.message

\* whenever the newest qualifying entry is an assistant message, or no
\* qualifying assistant message exists, the two variants are taken from
\* the same message
C36_SameMessageUnlessUserIsNewest ==
    (/\ lastOp.op = "last_message" /\ ~lastOp.full.err /\ ~lastOp.display.err
     /\ lastOp.display.message.role # "user" \/ lastOp.full.message.role # "assistant") =>
        lastOp.display.message = lastOp.full.message

(***************************************************************************)
(* The supervisor's two writers of the child's input                       *)
(*                                                                         *)
(* io.Copy forwards the supervisor's standard input to the pty (terminal   *)
(* mode) or to the pipe (piped mode) in a goroutine of its own, while the  *)
(* ticker goroutine types an injected message with one Write per           *)
(* character; nothing orders the Write calls of the two.                   *)
(***************************************************************************)

\* the Write calls that reached the child's input, in their order
ReachedChild ==
    LET Ok(w) == w.ok
    IN  SelectSeq(sup.childIn, Ok)

\* C37: the bytes of one injected message, its carriage return included,
\* reach the child's input as one run: no byte forwarded from the
\* supervisor's standard input lies between two bytes of the message.
C37_InjectionIsContiguous ==
    \A i, j, k \in DOMAIN ReachedChild :
        (/\ i < j /\ j < k
         /\ ReachedChild[i].id # 0
         /\ ReachedChild[i].id = ReachedChild[k].id) => ReachedChild[j].id # 0

\* the ticker goroutine alone never mixes two messages: the bytes of each
\* injected message are in one run among the injected bytes
C37_MessagesAreNotMixed ==
    \A i, j, k \in DOMAIN MessageWrites :
        (i < j /\ j < k /\ MessageWrites[i].id = MessageWrites[k].id)
            => MessageWrites[j].id = MessageWrites[i].id

(***************************************************************************)
(* The SSE hub of the dashboard (api)                                      *)
(*                                                                         *)
(* Each /events request makes a channel of capacity 10, adds it to the hub *)
(* and defers RemoveConnection; Broadcast is called by the request's own   *)
(* handler and, through BroadcastStatusUpdate, by the goroutines that      *)
(* notify a status change.  AddConnection and RemoveConnection hold        *)
(* h.mutex for writing, Broadcast holds it for reading: Broadcast calls    *)
(* overlap each other and exclude the other two.  A close of a closed      *)
(* channel panics; the count of closes includes the panicking ones.        *)
(***************************************************************************)

\* make(chan string, 10)
ChannelCapacity == 10

\* the /events requests and the goroutines broadcasting a status update
Connections  == {"c1", "c2"}
Broadcasters == {"b1", "b2"}

IdleBroadcast == [pc |-> "idle", todo |-> {}, ch |-> ""]

HubInit ==
    [connections |-> {},                               \* the keys of h.connections
     buffered    |-> [c \in Connections |-> 0],       \* messages in the channel
     closes      |-> [c \in Connections |-> 0],       \* close(ch) calls made
     handler     |-> [c \in Connections |-> "new"],   \* handleSSE of the request
     broadcast   |-> [b \in Broadcasters |-> IdleBroadcast],
     mapWrites   |-> {}]                               \* locks held at a map write

\* nobody holds the read lock
NoReader == \A b \in Broadcasters : hub.broadcast[b].pc = "idle"

HubOnly == UNCHANGED <<hookVars, queueVars, sup, statusFile, loaded, notified,
                       fileWatcher, writers, handlers, openWatchers>>

\* the select of Broadcast for one channel, and the removal of a channel
\* whose buffer is full
SendOrDrop(h, ch) ==
    IF h.buffered[ch] < ChannelCapacity
    THEN [h EXCEPT !.buffered[ch] = @ + 1]
    ELSE [h EXCEPT !.connections = @ \ {ch}, !.closes[ch] = @ + 1,
                   !.mapWrites = @ \cup {"read"}]

RECURSIVE BroadcastTo(_, _)
BroadcastTo(h, chs) ==
    IF chs = {} THEN h
    ELSE LET ch == CHOOSE c \in chs : TRUE
         IN  BroadcastTo(IF ch \in h.connections THEN SendOrDrop(h, ch) ELSE h,
                         chs \ {ch})

\* handleSSE up to its loop: the channel, AddConnection
Connect(c) ==
    /\ hub.handler[c] = "new" /\ NoReader
    /\ hub' = [hub EXCEPT !.connections = @ \cup {c}, !.handler[c] = "status",
                          !.mapWrites = @ \cup {"write"}]
    /\ HubOnly

\* the handler's Broadcast of the statuses and then of the actions
HandlerBroadcasts(c) ==
    /\ hub.handler[c] \in {"status", "actions"}
    /\ hub' = [BroadcastTo(hub, hub.connections) EXCEPT
                  !.handler[c] = IF hub.handler[c] = "status" THEN "actions" ELSE "stream"]
    /\ HubOnly

\* case message, ok := <-ch with a message
HandlerReceives(c) ==
    /\ hub.handler[c] = "stream" /\ hub.buffered[c] > 0
    /\ hub' = [hub EXCEPT !.buffered[c] = @ - 1]
    /\ HubOnly

\* the channel is closed and empty (!ok), or the client has gone
\* (r.Context().Done(), a failed write): the handler returns
HandlerReturns(c) ==
    /\ hub.handler[c] = "stream"
    /\ hub' = [hub EXCEPT !.handler[c] = "cleanup"]
    /\ HubOnly

\* the deferred RemoveConnection
RemoveConnection(c) ==
    /\ hub.handler[c] = "cleanup" /\ NoReader
    /\ hub' = [hub EXCEPT !.connections = @ \ {c}, !.closes[c] = @ + 1,
                          !.handler[c] = "done", !.mapWrites = @ \cup {"write"}]
    /\ HubOnly

\* Broadcast from BroadcastStatusUpdate: RLock and the start of the range
BroadcastStarts(b) ==
    /\ hub.broadcast[b].pc = "idle"
    /\ hub.connections # {}
    /\ hub' = [hub EXCEPT !.broadcast[b] = [pc |-> "range", todo |-> hub.connections,
                                            ch |-> ""]]
    /\ HubOnly

\* the select for the next channel of the range: the send, or the default
\* branch entered
BroadcastSelects(b) ==
    /\ hub.broadcast[b].pc = "range"
    /\ \E ch \in hub.broadcast[b].todo \cap hub.connections :
          hub' = IF hub.buffered[ch] < ChannelCapacity
                 THEN [hub EXCEPT !.buffered[ch] = @ + 1, !.broadcast[b].todo = @ \ {ch}]
                 ELSE [hub EXCEPT !.broadcast[b].pc = "drop", !.broadcast[b].ch = ch,
                                  !.broadcast[b].todo = @ \ {ch}]
    /\ HubOnly

\* the default branch: delete and close
BroadcastDrops(b) ==
    /\ hub.broadcast[b].pc = "drop"
    /\ LET ch == hub.broadcast[b].ch
       IN  hub' = [hub EXCEPT !.connections = @ \ {ch}, !.closes[ch] = @ + 1,
                              !.mapWrites = @ \cup {"read"},
                              !.broadcast[b].pc = "range", !.broadcast[b].ch = ""]
    /\ HubOnly

\* the end of the range and RUnlock
BroadcastReturns(b) ==
    /\ hub.broadcast[b].pc = "range"
    /\ hub.broadcast[b].todo \cap hub.connections = {}
    /\ hub' = [hub EXCEPT !.broadcast[b] = IdleBroadcast]
    /\ HubOnly

HubSpecInit ==
    /\ QueueEmpty /\ HookIdle /\ SupIdle
    /\ statusFile = <<>> /\ loaded = <<>> /\ notified = <<>>
    /\ fileWatcher = <<>> /\ writers = <<>>
    /\ handlers = <<>> /\ openWatchers = <<>>
    /\ hub = HubInit

HubNext ==
    \/ \E c \in Connections : Connect(c)
    \/ \E c \in Connections : HandlerBroadcasts(c)
    \/ \E c \in Connections : HandlerReceives(c)
    \/ \E c \in Connections : HandlerReturns(c)
    \/ \E c \in Connections : RemoveConnection(c)
    \/ \E b \in Broadcasters : BroadcastStarts(b)
    \/ \E b \in Broadcasters : BroadcastSelects(b)
    \/ \E b \in Broadcasters : BroadcastDrops(b)
    \/ \E b \in Broadcasters : BroadcastReturns(b)

HubSpec == HubSpecInit /\ [][HubNext]_vars

\* C38: each SSE connection channel is closed at most once, also when
\* Broadcast has dropped the connection before the handler's cleanup, and
\* the connection map is changed only under the write lock.
C38_ChannelClosedOnce ==
    /\ \A c \in Connections : hub.closes[c] <= 1
    /\ hub.mapWrites \subseteq {"write"}

\* a connection that Broadcast never dropped is closed once, by its
\* handler's cleanup
C38_ClosedOnceUnlessDropped ==
    "read" \notin hub.mapWrites =>
        \A c \in Connections :
            hub.closes[c] = IF hub.handler[c] = "done" THEN 1 ELSE 0

(***************************************************************************)
(* Two projects whose paths give one project directory                     *)
(*                                                                         *)
(* The agent keeps the transcripts of /a-b and of /a/b in the same         *)
(* directory, -a-b, one file per session.                                  *)
(***************************************************************************)

MaxCollideLines == 2
MaxCollideTicks == 1

CollideNext ==
    \/ \E session \in RotateSessions, line \in ConversationLines(now) :
          AppendLine(RotateFile(session), line, MaxCollideLines)
    \/ HandleAgentStatusChange
    \/ \E tp \in DOMAIN transcripts : HandleTranscriptChange(tp)
    \/ Advance(MaxCollideTicks * TickSeconds)

CollideSpec == KnownInit /\ [][CollideNext]_vars

\* the rows whose path gives the directory of the transcript
RowsOfDirectory(tp) == {i \in 1..Len(store) : ProjectDirName(store[i].path) = tp.dir}

\* C39: a write event of a transcript is attributed to the row of the
\* project the transcript belongs to and changes no other row, also when
\* the path of another row gives the same directory name.
C39_WriteIsAttributedToItsRow ==
    [][\A tp \in DOMAIN transcripts : \A i \in 1..Len(store) :
          (IsTranscriptChange(tp) /\ store[i].transcript_path = tp) =>
             /\ lastOp'.path = store[i].path
             /\ \A j \in 1..Len(store) : j # i => store'[j] = store[j]]_vars

\* with one row only for the directory of the transcript, the write is
\* attributed to that row and no other row changes
C39_AttributedWhenDirectoryIsUnique ==
    [][\A tp \in DOMAIN transcripts : \A i \in 1..Len(store) :
          (IsTranscriptChange(tp) /\ RowsOfDirectory(tp) = {i}) =>
             /\ lastOp'.path = store[i].path
             /\ \A j \in 1..Len(store) : j # i => store'[j] = store[j]]_vars

(***************************************************************************)
(* A pop whose write of the queue file fails                               *)
(*                                                                         *)
(* os.Remove fails with the file in place.  os.WriteFile opens the file    *)
(* with O_TRUNC and then writes: it fails at the open with the file as it  *)
(* was, or at the write (a full disk, a quota, an I/O error) with the      *)
(* file cut to nothing or to a part of the new content.                    *)
(***************************************************************************)

MaxFaultMessages == 3

FileFaults == {"none", "remove", "open", "write"}

\* a queue file that os.WriteFile has cut: it exists and does not parse
TornMessageFile == [exists |-> TRUE, messages |-> <<>>, torn |-> TRUE]

Torn(fs, path) == fs[getMinionMessageFile(path)] = TornMessageFile

\* GetMinionMessages with its error: the file does not parse
ReadMinionMessages(fs, path) ==
    IF Torn(fs, path) THEN [err |-> TRUE, messages |-> <<>>]
    ELSE [err |-> FALSE, messages |-> GetMinionMessages(fs, path)]

\* PopMinionMessage with a file system that fails as fault says
PopMinionMessageWithFault(fs, path, fault) ==
    LET read == ReadMinionMessages(fs, path)
        messages == read.messages
        key == getMinionMessageFile(path)
    IN  IF read.err
        THEN [has |-> FALSE, message |-> NoMessage, err |-> TRUE, files |-> fs]
        ELSE IF Len(messages) = 0
        THEN [has |-> FALSE, message |-> NoMessage, err |-> FALSE, files |-> fs]
        ELSE IF Len(Tail(messages)) = 0
        THEN IF fault = "remove"
             THEN [has |-> TRUE, message |-> Head(messages), err |-> TRUE, files |-> fs]
             ELSE PopMinionMessage(fs, messages, path)
        ELSE IF fault = "open"
             THEN [has |-> TRUE, message |-> Head(messages), err |-> TRUE, files |-> fs]
        ELSE IF fault = "write"
             THEN [has |-> TRUE, message |-> Head(messages), err |-> TRUE,
                   files |-> [fs EXCEPT ![key] = TornMessageFile]]
        ELSE PopMinionMessage(fs, messages, path)

\* one tick of the supervisor's polling loop up to its decision: the pop,
\* and on an error the continue; returned holds what goes on to be typed
PopWithFault(path, fault) ==
    /\ LET result == PopMinionMessageWithFault(files, path, fault)
       IN  /\ files' = result.files
           /\ returned' = [returned EXCEPT ![path] =
                              IF result.has /\ ~result.err
                              THEN Append(@, result.message) ELSE @]
           /\ qlast' = [op |-> "pop", path |-> path,
                        messages |-> IF result.has THEN <<result.message>> ELSE <<>>,
                        err |-> result.err, fault |-> fault]
    /\ UNCHANGED <<enq, pop, nextId, accepted>>
    /\ UNCHANGED <<hookVars, sup, diskVars>>

\* AddMinionMessage, which returns the error of GetMinionMessages
EnqueueUnlessTorn(path, text) ==
    /\ ~Torn(files, path)
    /\ Enqueue(path, text, MaxFaultMessages)

PopFaultNext ==
    \/ \E text \in Texts : EnqueueUnlessTorn(PathSlash, text)
    \/ \E fault \in FileFaults : PopWithFault(PathSlash, fault)

PopFaultSpec == QueueInit /\ [][PopFaultNext]_vars

\* the failed pop of the last tick has left its message at the head of the
\* queue and has handed nothing to the typing
FailedPopKeepsHead ==
    LET read == ReadMinionMessages(files, qlast.path)
    IN  /\ ~read.err
        /\ read.messages # <<>>
        /\ Head(read.messages) = qlast.messages[1]
        /\ \A i \in DOMAIN returned[qlast.path] :
              returned[qlast.path][i] # qlast.messages[1]

\* C40: when pop cannot rewrite or delete the queue file it returns an
\* error with the head message, nothing is injected on that tick and the
\* message is still at the head of the queue, so that a later tick returns
\* it again.
C40_FailedPopKeepsMessage ==
    (qlast.op = "pop" /\ qlast.err /\ qlast.messages # <<>>) => FailedPopKeepsHead

\* a pop that fails at os.Remove, or at the open of os.WriteFile, keeps
\* the message at the head of the queue
C40_FailedPopKeepsMessageUnlessCut ==
    (/\ qlast.op = "pop" /\ qlast.err /\ qlast.messages # <<>>
     /\ qlast.fault # "write") => FailedPopKeepsHead

=============================================================================
